---- MODULE Spec2Model ----
(***************************************************************************)
(* The synchronization core of obsidian-full-calendar-gcal-sync:           *)
(* GoogleCalendarSync (the reconciliation engine of one calendar source),  *)
(* GoogleCalendar.syncAllEvents (one reconciliation run) and SyncScheduler *)
(* (the periodic driver).                                                  *)
(*                                                                         *)
(* Execution model.  The code runs on the JavaScript event loop.  One      *)
(* action of this module is one macrotask: a host call, the arrival of the *)
(* response of one outstanding remote request, or the firing of one timer. *)
(* The handler runs to its next await, and every continuation that is      *)
(* ready without waiting for a macrotask (a microtask) runs in the same    *)
(* step: Drain empties the microtask queue mq, first in first out.         *)
(* A remote request takes effect on the remote calendar at the moment its  *)
(* response is delivered.                                                  *)
(***************************************************************************)
EXTENDS Integers, Sequences, FiniteSets, TLC

VARIABLES
    world,          \* the scenario: events the host may hand in, fault codes
    syncState,      \* GoogleCalendarSync.syncState
    syncingEvents,  \* GoogleCalendarSync.syncingEvents: key -> call
    credentials,    \* oauth2Client.credentials
    remote,         \* the remote calendar: record id -> record
    calls,          \* every syncEvent invocation, in call order
    dels,           \* every deleteEvent invocation, in call order
    runs,           \* every syncAllEvents invocation (reconciliation run)
    local,          \* the Local Event Source: what getEvents() returns
    sched,          \* the SyncScheduler and the interval timers of the window
    now,            \* Date.now(), in milliseconds
    settings,       \* the plugin data on disk: sync state and tokens
    faultsLeft      \* injected remote failures still allowed

vars == <<world, syncState, syncingEvents, credentials, remote, calls, dels,
          runs, local, sched, now, settings, faultsLeft>>

----------------------------------------------------------------------------
(* Bounds *)

MaxCalls == 2       \* syncEvent calls issued by the host
MaxRemote == 3      \* remote records ever inserted
MaxFaults == 1      \* injected remote failures while the host calls syncEvent
MaxDels == 1        \* deleteEvent calls issued by the host
MaxRuns == 2        \* reconciliation runs
RunFaults == 2      \* injected remote failures while runs are made
BatchEvents == 6    \* local events of a run of more than one batch
MaxTimers == 3      \* interval timers the scheduler ever arms
FirstYear == 2024   \* the years of the dates that are converted
LastYear == 2025

----------------------------------------------------------------------------
(* Values *)

NoKey == <<>>       \* the empty string / undefined key (falsy in JavaScript)
NoTime == <<>>      \* an absent "HH:MM"

MinutesPerDay == 1440

\* An OFCEvent of type single, all day on one date.
AllDay(title, date, id) ==
    [type |-> "single", title |-> title, allDay |-> TRUE, date |-> date,
     endDate |-> 0, startTime |-> NoTime, endTime |-> NoTime, startDate |-> 0,
     id |-> id]

\* One element of eventsWithPaths.
Recurring(title, startDate, id) ==
    [type |-> "rrule", title |-> title, allDay |-> TRUE, date |-> 0,
     endDate |-> 0, startTime |-> NoTime, endTime |-> NoTime,
     startDate |-> startDate, id |-> id]

Item(ev, filePath) == [event |-> ev, filePath |-> filePath]

NoStamp == [kind |-> "none", v |-> 0]

\* Mutant: an all-day event without endDate ends on its own date.
convertToGoogleEventSameDay(event) ==
    LET base == [summary |-> event.title, start |-> NoStamp, end |-> NoStamp]
        hm(t) == t[1] * 60 + t[2]
        at(mins) == [kind |-> "dateTime", v |-> event.date * MinutesPerDay + mins]
    IN  IF event.type # "single" THEN base
        ELSE IF event.allDay
        THEN [base EXCEPT
                !.start = [kind |-> "date", v |-> event.date],
                !.end = [kind |-> "date",
                         v |-> IF event.endDate # 0 THEN event.endDate
                               ELSE event.date]]
        ELSE IF event.startTime = NoTime THEN base
        ELSE [base EXCEPT
                !.start = at(hm(event.startTime)),
                !.end = IF event.endTime # NoTime
                        THEN at(hm(event.endTime))
                        ELSE at((event.startTime[1] + 1) * 60 + event.startTime[2])]

\* Mutant: the default end keeps the hour within the day of the event.
convertToGoogleEventWrapsHour(event) ==
    LET base == [summary |-> event.title, start |-> NoStamp, end |-> NoStamp]
        hm(t) == t[1] * 60 + t[2]
        at(mins) == [kind |-> "dateTime", v |-> event.date * MinutesPerDay + mins]
    IN  IF event.type # "single" THEN base
        ELSE IF event.allDay
        THEN [base EXCEPT
                !.start = [kind |-> "date", v |-> event.date],
                !.end = [kind |-> "date",
                         v |-> IF event.endDate # 0 THEN event.endDate
                               ELSE event.date + 1]]
        ELSE IF event.startTime = NoTime THEN base
        ELSE [base EXCEPT
                !.start = at(hm(event.startTime)),
                !.end = IF event.endTime # NoTime
                        THEN at(hm(event.endTime))
                        ELSE at(((event.startTime[1] + 1) % 24) * 60
                                  + event.startTime[2])]

\* convertToGoogleEvent: dates are day numbers, dateTimes minutes since day 0.
convertToGoogleEvent(event) ==
    LET base == [summary |-> event.title, start |-> NoStamp, end |-> NoStamp]
        hm(t) == t[1] * 60 + t[2]
        at(mins) == [kind |-> "dateTime", v |-> event.date * MinutesPerDay + mins]
    IN  IF event.type # "single" THEN base
        ELSE IF event.allDay
        THEN [base EXCEPT
                !.start = [kind |-> "date", v |-> event.date],
                !.end = [kind |-> "date",
                         v |-> IF event.endDate # 0 THEN event.endDate
                               ELSE event.date + 1]]
        ELSE IF event.startTime = NoTime THEN base
        ELSE [base EXCEPT
                !.start = at(hm(event.startTime)),
                !.end = IF event.endTime # NoTime
                        THEN at(hm(event.endTime))
                        ELSE at((event.startTime[1] + 1) * 60 + event.startTime[2])]

\* The calendar of DateTime.  An ISO date is <<year, month, day>>, a
\* DateTime the number of its day, day 1 being January 1st of FirstYear.
isLeapYear(year) == year % 4 = 0 /\ (year % 100 # 0 \/ year % 400 = 0)

daysInYear(year) == IF isLeapYear(year) THEN 366 ELSE 365

daysInMonth(year, month) ==
    IF month = 2 THEN (IF isLeapYear(year) THEN 29 ELSE 28)
    ELSE IF month \in {4, 6, 9, 11} THEN 30
    ELSE 31

RECURSIVE daysBeforeYear(_)
daysBeforeYear(year) ==
    IF year <= FirstYear THEN 0
    ELSE daysBeforeYear(year - 1) + daysInYear(year - 1)

RECURSIVE daysBeforeMonth(_, _)
daysBeforeMonth(year, month) ==
    IF month <= 1 THEN 0
    ELSE daysBeforeMonth(year, month - 1) + daysInMonth(year, month - 1)

NoDate == <<>>      \* an absent "yyyy-MM-dd"

\* DateTime.fromISO("yyyy-MM-dd")
fromISO(iso) == daysBeforeYear(iso[1]) + daysBeforeMonth(iso[1], iso[2]) + iso[3]

RECURSIVE yearOfDay(_, _)
yearOfDay(n, year) ==
    IF n <= daysInYear(year) THEN <<year, n>>
    ELSE yearOfDay(n - daysInYear(year), year + 1)

RECURSIVE monthOfDay(_, _, _)
monthOfDay(n, year, month) ==
    IF n <= daysInMonth(year, month) THEN <<year, month, n>>
    ELSE monthOfDay(n - daysInMonth(year, month), year, month + 1)

\* toFormat("yyyy-MM-dd")
toFormat(n) ==
    LET yd == yearOfDay(n, FirstYear)
    IN  monthOfDay(yd[2], yd[1], 1)

\* toISO(), without the offset of the zone: <<year, month, day, hour, minute>>
toISO(v) ==
    LET day == toFormat(v \div MinutesPerDay)
        mins == v % MinutesPerDay
    IN  <<day[1], day[2], day[3], mins \div 60, mins % 60>>

\* convertToGoogleEvent on an event with ISO dates, with the payload as it is
\* sent: the fields that are set, with their strings.
googleEvent(event) ==
    LET g == convertToGoogleEvent(
                [event EXCEPT !.date = fromISO(event.date),
                              !.endDate = IF event.endDate = NoDate THEN 0
                                          ELSE fromISO(event.endDate)])
        stamp(st) == IF st.kind = "date" THEN [date |-> toFormat(st.v)]
                     ELSE [dateTime |-> toISO(st.v)]
        summary == [summary |-> g.summary]
    IN  IF g.start.kind = "none" THEN summary
        ELSE IF g.end.kind = "none"
        THEN [summary |-> g.summary, start |-> stamp(g.start)]
        ELSE [summary |-> g.summary, start |-> stamp(g.start), end |-> stamp(g.end)]

\* timeMin / timeMax of the three events.list probes of performSyncEvent
\* (-1: undefined).  "<date>T23:59:59Z" is the last instant before the next
\* midnight: with minutes as the unit, "start < timeMax" is "start < next midnight".
timeMin(g) ==
    IF g.start.kind = "dateTime" THEN g.start.v
    ELSE IF g.start.kind = "date" THEN g.start.v * MinutesPerDay
    ELSE -1

timeMax(g) ==
    IF g.end.kind = "dateTime" THEN g.end.v
    ELSE IF g.end.kind = "date" THEN (g.end.v + 1) * MinutesPerDay
    ELSE -1

\* The instant a stamp of a stored remote record stands for.
Instant(s) == IF s.kind = "date" THEN s.v * MinutesPerDay ELSE s.v

----------------------------------------------------------------------------
(* eventMapping: a JavaScript object, kept as its entries in insertion order *)

Lookup(m, k) ==
    IF \E i \in 1..Len(m) : m[i][1] = k
    THEN m[CHOOSE i \in 1..Len(m) : m[i][1] = k][2]
    ELSE 0

MapSet(m, k, v) ==
    IF \E i \in 1..Len(m) : m[i][1] = k
    THEN [i \in 1..Len(m) |-> IF m[i][1] = k THEN <<k, v>> ELSE m[i]]
    ELSE Append(m, <<k, v>>)

MapDel(m, k) == SelectSeq(m, LAMBDA p : p[1] # k)

MapKeys(m) == {m[i][1] : i \in 1..Len(m)}

\* A Map (syncingEvents) as a function
MapPut(f, k, v) == [x \in DOMAIN f \cup {k} |-> IF x = k THEN v ELSE f[x]]
MapRemove(f, k) == [x \in DOMAIN f \ {k} |-> f[x]]
EmptyMap == [x \in {} |-> 0]

----------------------------------------------------------------------------
(* The engine state as one value, so that a handler and the microtasks it   *)
(* makes ready compose: every operator below maps a state S to a state.     *)

Cur ==
    [syncState |-> syncState, syncingEvents |-> syncingEvents,
     credentials |-> credentials, remote |-> remote, calls |-> calls,
     dels |-> dels, runs |-> runs, sched |-> sched, faultsLeft |-> faultsLeft,
     settings |-> settings, mq |-> <<>>]

Commit(S) ==
    /\ syncState' = S.syncState
    /\ syncingEvents' = S.syncingEvents
    /\ credentials' = S.credentials
    /\ remote' = S.remote
    /\ calls' = S.calls
    /\ dels' = S.dels
    /\ runs' = S.runs
    /\ sched' = S.sched
    /\ settings' = S.settings
    /\ faultsLeft' = S.faultsLeft
    /\ UNCHANGED <<world, local, now>>

\* The same with a change of the notes of the local calendar
CommitLocal(S, events) ==
    /\ syncState' = S.syncState
    /\ syncingEvents' = S.syncingEvents
    /\ credentials' = S.credentials
    /\ remote' = S.remote
    /\ calls' = S.calls
    /\ dels' = S.dels
    /\ runs' = S.runs
    /\ sched' = S.sched
    /\ settings' = S.settings
    /\ faultsLeft' = S.faultsLeft
    /\ local' = events
    /\ UNCHANGED <<world, now>>

Enq(S, k, a) == [S EXCEPT !.mq = Append(@, [k |-> k, a |-> a])]

Mapping(S) == S.syncState.eventMapping

SetMapping(S, k, v) ==
    [S EXCEPT !.syncState.eventMapping = MapSet(@, k, v),
              !.remote = [i \in 1..Len(@) |->
                             IF i = v THEN [@[i] EXCEPT !.by = @ \cup {k}]
                             ELSE @[i]]]

----------------------------------------------------------------------------
(* The remote calendar (calendar.events.insert / update / delete / list).   *)
(* A record keeps the payload it was last written with; by is history: the *)
(* keys the engine created the record for or recorded it under.            *)

Live(S, id) == id \in 1..Len(S.remote) /\ S.remote[id].live

RemoteInsert(S, g, k) ==
    [S EXCEPT !.remote = Append(@, [live |-> TRUE, summary |-> g.summary,
                                    start |-> g.start, end |-> g.end,
                                    by |-> {k} \ {NoKey}])]

RemoteUpdate(S, id, g) ==
    [S EXCEPT !.remote[id].summary = g.summary,
              !.remote[id].start = g.start,
              !.remote[id].end = g.end]

RemoteDelete(S, id) == [S EXCEPT !.remote[id].live = FALSE]

\* events.list({timeMin, timeMax, singleEvents, orderBy: "startTime"}): the live
\* records that end after timeMin and start before timeMax.
ListIds(S, g) ==
    {id \in 1..Len(S.remote) :
        /\ S.remote[id].live
        /\ Instant(S.remote[id].end) > timeMin(g)
        /\ (timeMax(g) = -1 \/ Instant(S.remote[id].start) < timeMax(g))}

\* items.find(item => item.summary === title && pred): the first of the list in
\* start order; records that start together may come in either order.  {0}: none.
FirstOf(S, ids) ==
    IF ids = {} THEN {0}
    ELSE {id \in ids : \A o \in ids :
              Instant(S.remote[id].start) <= Instant(S.remote[o].start)}

Matching(S, g, title) == {id \in ListIds(S, g) : S.remote[id].summary = title}

----------------------------------------------------------------------------
(* Outcomes of a remote request.  A request on a record that is gone is     *)
(* answered 404 (update) or 404/410 (delete).  Any request may be answered  *)
(* with one of world.codes while faultsLeft lasts; every request made for   *)
(* an event whose key is in world.victims fails with one of world.codes.    *)

Ok == [code |-> 200, found |-> 0, inj |-> FALSE]
Found(id) == [code |-> 200, found |-> id, inj |-> FALSE]
Gone(code) == [code |-> code, found |-> 0, inj |-> FALSE]
Fault(code) == [code |-> code, found |-> 0, inj |-> TRUE]

Injected(S) == IF S.faultsLeft > 0 THEN {Fault(x) : x \in world.codes} ELSE {}

Forced == {Gone(x) : x \in world.codes}

Outcomes(S, victim, good) == IF victim THEN Forced ELSE good \cup Injected(S)

Spend(S, o) == IF o.inj THEN [S EXCEPT !.faultsLeft = @ - 1] ELSE S

\* History kept per run: errs, the requests made for the run that failed;
\* auth401, a request made for the run was answered 401;
\* after401, an insert, update or delete was requested for the run after that.
Received(S, run, o) ==
    IF run # 0 /\ o.code = 401
    THEN [Spend(S, o) EXCEPT !.runs[run].auth401 = TRUE, !.runs[run].errs = @ + 1]
    ELSE IF run # 0 /\ o.code # 200
    THEN [Spend(S, o) EXCEPT !.runs[run].errs = @ + 1]
    ELSE Spend(S, o)

Issued(S, run) ==
    IF run # 0 /\ S.runs[run].auth401
    THEN [S EXCEPT !.runs[run].after401 = TRUE]
    ELSE S

----------------------------------------------------------------------------
(* Credentials *)

\* A token is a number, 0 for none; every refresh hands out the next one.
isAuthenticated(S) == S.credentials.access_token # 0

\* Mutant: the token is refreshed only once it has expired.
RefreshDueNoMargin(S) ==
    /\ S.credentials.expiry_date # 0
    /\ now >= S.credentials.expiry_date

\* refreshTokenIfNeeded: the condition under which it calls refreshAccessToken
RefreshDue(S) ==
    /\ S.credentials.expiry_date # 0
    /\ now >= S.credentials.expiry_date - 60000

TokenLifetime == 3600000

\* oauth2Client.setCredentials(newCredentials), lines 159-161
Refreshed(S) == [S EXCEPT !.credentials.access_token = @ + 1,
                          !.credentials.expiry_date = now + TokenLifetime]

NoCredentials == [access_token |-> 0, refresh_token |-> FALSE, expiry_date |-> 0]

getCredentials(S) ==
    [accessToken |-> S.credentials.access_token,
     refreshToken |-> S.credentials.refresh_token,
     tokenExpiry |-> S.credentials.expiry_date]

getSyncState(S) == S.syncState

NoSyncState == [lastSyncTime |-> 0, eventMapping |-> <<>>, pendingDeletions |-> <<>>]

loadSyncState(state) ==
    [lastSyncTime |-> state.lastSyncTime, eventMapping |-> state.eventMapping,
     pendingDeletions |-> state.pendingDeletions]

\* The plugin data from which the plugin made an engine with this sync state
\* and these credentials.
Persisted(state, creds) ==
    [googleSyncStates |-> state, accessToken |-> creds.access_token,
     refreshToken |-> creds.refresh_token, tokenExpiry |-> creds.expiry_date]

----------------------------------------------------------------------------
(* syncEvent / performSyncEvent.  A call is at one of these places:         *)
(*   refresh      awaiting refreshAccessToken                               *)
(*   wait         awaiting the syncPromise of another call (existingSync)   *)
(*   nokeyInsert  awaiting events.insert of an event without a key          *)
(*   update       awaiting events.update of the mapped record               *)
(*   probe1       awaiting the first events.list                            *)
(*   adoptUpdate  awaiting events.update of the record the probe found      *)
(*   probe2       awaiting the final events.list before the insert          *)
(*   insert       awaiting events.insert                                    *)
(*   dupDelete    awaiting events.delete of the record just created         *)
(*   probe3       awaiting the events.list after the insert                 *)
(*   postDelete   awaiting events.delete of the record just created         *)
(*   done, failed the promise is fulfilled with res / rejected with err     *)
(* ins, upd, lst, del count the remote requests the call has issued;        *)
(* st0 and st1 are the syncState when the call was made and when it settled; *)
(* before is the set of calls settled when this one was made; mappedAtStart *)
(* and idMappedAtStart tell whether the mapping had an entry for the call's *)
(* key and for the event's id when the call was made.                       *)

NotAuthenticated == 1       \* "Not authenticated with Google Calendar"
RefreshFailed == 2          \* "Failed to refresh Google Calendar access token"

Settled(cl) == cl.pc \in {"done", "failed"}

NewCall(S, ev, filePath, run, idx) ==
    [pc |-> "start", ev |-> ev, filePath |-> filePath, key |-> NoKey,
     run |-> run, idx |-> idx, perf |-> FALSE, waitOn |-> 0, target |-> 0,
     other |-> 0, created |-> 0, res |-> 0, err |-> 0,
     ins |-> 0, upd |-> 0, lst |-> 0, del |-> 0, updTarget |-> 0,
     mapAtUpd |-> 0, matched |-> FALSE, adopted |-> 0, adoptedBy |-> 0,
     mapAtIns |-> 0, mapAtRet |-> 0,
     mappedAtStart |->
        Lookup(Mapping(S), IF filePath # NoKey THEN filePath ELSE ev.id) # 0,
     idMappedAtStart |-> Lookup(Mapping(S), ev.id) # 0,
     st0 |-> S.syncState, st1 |-> S.syncState,
     rfr |-> 0, cr0 |-> S.credentials, loc |-> NoKey,
     before |-> IF run # 0 THEN {}
                ELSE {c \in 1..Len(S.calls) : Settled(S.calls[c])}]

Return(S, c, res) ==
    Enq([S EXCEPT !.calls[c].pc = "done", !.calls[c].res = res,
                  !.calls[c].st1 = S.syncState], "callSettled", c)

Throw(S, c, err) ==
    Enq([S EXCEPT !.calls[c].pc = "failed", !.calls[c].err = err,
                  !.calls[c].st1 = S.syncState], "callSettled", c)

IssueUpdate(S, c, pc, id) ==
    [Issued(S, S.calls[c].run)
        EXCEPT !.calls[c].pc = pc, !.calls[c].target = id,
               !.calls[c].upd = @ + 1, !.calls[c].updTarget = id,
               !.calls[c].mapAtUpd = Lookup(Mapping(S), S.calls[c].key)]

IssueList(S, c, pc) == [S EXCEPT !.calls[c].pc = pc, !.calls[c].lst = @ + 1]

IssueInsert(S, c, pc) ==
    [Issued(S, S.calls[c].run)
        EXCEPT !.calls[c].pc = pc, !.calls[c].ins = @ + 1,
               !.calls[c].mapAtIns = Lookup(Mapping(S), S.calls[c].key)]

IssueDelete(S, c, pc, id) ==
    [Issued(S, S.calls[c].run)
        EXCEPT !.calls[c].pc = pc, !.calls[c].target = id, !.calls[c].del = @ + 1]

Payload(S, c) == convertToGoogleEvent(S.calls[c].ev)

\* Mutant: the found record is returned and the mapping is left as it is.
AdoptUnrecorded(S, c, id, n) ==
    [S EXCEPT !.calls[c].adopted = id, !.calls[c].adoptedBy = n]

\* this.syncState.eventMapping[eventKey] = id of the record the n-th probe of
\* call c found; adopted and adoptedBy are history.
Adopt(S, c, id, n) ==
    [SetMapping(S, S.calls[c].key, id)
        EXCEPT !.calls[c].adopted = id, !.calls[c].adoptedBy = n]

\* performSyncEvent, lines 438-495: the second look at the mapping, the final
\* probe, the insert.
BeforeCreate(S, c) ==
    LET doubleCheckMapping == Lookup(Mapping(S), S.calls[c].key)
    IN  IF doubleCheckMapping # 0 THEN Return(S, c, doubleCheckMapping)
        ELSE IF timeMin(Payload(S, c)) # -1 THEN IssueList(S, c, "probe2")
        ELSE IssueInsert(S, c, "insert")

\* performSyncEvent, lines 590-595: record the created id.
TrackCreated(S, c) ==
    LET finalEventId == S.calls[c].created
    IN  Return(IF finalEventId # 0
               THEN SetMapping(S, S.calls[c].key, finalEventId) ELSE S,
               c, finalEventId)

\* Mutant: the mapping is not looked at when the insert has returned.
afterInsertUnchecked(S, c, g) ==
    IF timeMin(g) # -1 THEN IssueList(S, c, "probe3") ELSE TrackCreated(S, c)

\* performSyncEvent, lines 496-546: the insert has returned createdEventId.
afterInsert(S, c, g) ==
    IF Lookup(Mapping(S), S.calls[c].key) # 0
    THEN IssueDelete(S, c, "dupDelete", S.calls[c].created)
    ELSE IF timeMin(g) # -1 THEN IssueList(S, c, "probe3")
    ELSE TrackCreated(S, c)

\* Mutant: the mapping is not consulted before the duplicate checks.
performSyncEventNoLookup(S, c) == BeforeCreate(S, c)

\* performSyncEvent up to its first await.
\* Mutant: the entry of the event's id is read, not that of the key.
performSyncEventById(S, c) ==
    LET existingGoogleId == Lookup(Mapping(S), S.calls[c].ev.id)
    IN  IF existingGoogleId # 0 THEN IssueUpdate(S, c, "update", existingGoogleId)
        ELSE IF timeMin(Payload(S, c)) # -1 THEN IssueList(S, c, "probe1")
        ELSE BeforeCreate(S, c)

\* Mutant: the entry is dropped before the update of the mapped record.
performSyncEventForgets(S, c) ==
    LET existingGoogleId == Lookup(Mapping(S), S.calls[c].key)
    IN  IF existingGoogleId # 0
        THEN IssueUpdate([S EXCEPT !.syncState.eventMapping = MapDel(@, S.calls[c].key)],
                         c, "update", existingGoogleId)
        ELSE IF timeMin(Payload(S, c)) # -1 THEN IssueList(S, c, "probe1")
        ELSE BeforeCreate(S, c)

performSyncEvent(S, c) ==
    LET existingGoogleId == Lookup(Mapping(S), S.calls[c].key)
    IN  IF existingGoogleId # 0 THEN IssueUpdate(S, c, "update", existingGoogleId)
        ELSE IF timeMin(Payload(S, c)) # -1 THEN IssueList(S, c, "probe1")
        ELSE BeforeCreate(S, c)

\* Mutant: a mapping under the event's id is not copied to the file path.
syncEventBodyNoMigration(S, c) ==
    LET event == S.calls[c].ev
        filePath == S.calls[c].filePath
        eventKey == IF filePath # NoKey THEN filePath ELSE event.id
        S2 == [S EXCEPT !.calls[c].key = eventKey]
    IN  IF eventKey = NoKey THEN IssueInsert(S, c, "nokeyInsert")
        ELSE IF eventKey \in DOMAIN S2.syncingEvents
        THEN [S2 EXCEPT !.calls[c].pc = "wait",
                        !.calls[c].waitOn = S2.syncingEvents[eventKey]]
        ELSE performSyncEvent(
                [S2 EXCEPT !.syncingEvents = MapPut(@, eventKey, c),
                           !.calls[c].perf = TRUE], c)

\* Mutant: no look at syncingEvents, every call performs the sync itself.
syncEventBodyNoGuard(S, c) ==
    LET event == S.calls[c].ev
        filePath == S.calls[c].filePath
        eventKey == IF filePath # NoKey THEN filePath ELSE event.id
        S2 == [S EXCEPT !.calls[c].key = eventKey]
    IN  IF eventKey = NoKey THEN IssueInsert(S, c, "nokeyInsert")
        ELSE performSyncEvent(
                [S2 EXCEPT !.syncingEvents = MapPut(@, eventKey, c),
                           !.calls[c].perf = TRUE], c)

\* syncEvent from the return of refreshTokenIfNeeded to its next await.
\* Mutant: an event with no key is synced like one with a key.
syncEventBodyKeyed(S, c) ==
    LET event == S.calls[c].ev
        filePath == S.calls[c].filePath
        eventKey == IF filePath # NoKey THEN filePath ELSE event.id
        migrate == /\ filePath # NoKey /\ event.id # NoKey /\ event.id # filePath
                   /\ Lookup(Mapping(S), event.id) # 0
                   /\ Lookup(Mapping(S), filePath) = 0
        S1 == IF migrate
              THEN SetMapping(S, filePath, Lookup(Mapping(S), event.id)) ELSE S
        S2 == [S1 EXCEPT !.calls[c].key = eventKey]
    IN  IF eventKey \in DOMAIN S2.syncingEvents
        THEN [S2 EXCEPT !.calls[c].pc = "wait",
                        !.calls[c].waitOn = S2.syncingEvents[eventKey]]
        ELSE performSyncEvent(
                [S2 EXCEPT !.syncingEvents = MapPut(@, eventKey, c),
                           !.calls[c].perf = TRUE], c)

syncEventBody(S, c) ==
    LET event == S.calls[c].ev
        filePath == S.calls[c].filePath
        eventKey == IF filePath # NoKey THEN filePath ELSE event.id
        migrate == /\ filePath # NoKey /\ event.id # NoKey /\ event.id # filePath
                   /\ Lookup(Mapping(S), event.id) # 0
                   /\ Lookup(Mapping(S), filePath) = 0
        S1 == IF migrate
              THEN SetMapping(S, filePath, Lookup(Mapping(S), event.id)) ELSE S
        S2 == [S1 EXCEPT !.calls[c].key = eventKey]
    IN  IF eventKey = NoKey THEN IssueInsert(S, c, "nokeyInsert")
        ELSE IF eventKey \in DOMAIN S2.syncingEvents
        THEN [S2 EXCEPT !.calls[c].pc = "wait",
                        !.calls[c].waitOn = S2.syncingEvents[eventKey]]
        ELSE performSyncEvent(
                [S2 EXCEPT !.syncingEvents = MapPut(@, eventKey, c),
                           !.calls[c].perf = TRUE], c)

\* Mutant: events of every type are synced.
syncEventAnyType(S, ev, filePath, run, idx) ==
    LET c == Len(S.calls) + 1
        S1 == [S EXCEPT !.calls = Append(@, NewCall(S, ev, filePath, run, idx))]
    IN  IF ~isAuthenticated(S1) THEN Throw(S1, c, NotAuthenticated)
        ELSE IF RefreshDue(S1) THEN [S1 EXCEPT !.calls[c].pc = "refresh", !.calls[c].rfr = 1]
        ELSE Enq(S1, "callCont", c)

\* syncEvent(event, filePath) up to its first await; run, idx name the batch
\* item of the run that made the call (0, 0: the host made it).
syncEvent(S, ev, filePath, run, idx) ==
    LET c == Len(S.calls) + 1
        S1 == [S EXCEPT !.calls = Append(@, NewCall(S, ev, filePath, run, idx))]
    IN  IF ~isAuthenticated(S1) THEN Throw(S1, c, NotAuthenticated)
        ELSE IF ev.type # "single" THEN Return(S1, c, 0)
        ELSE IF RefreshDue(S1) THEN [S1 EXCEPT !.calls[c].pc = "refresh", !.calls[c].rfr = 1]
        ELSE Enq(S1, "callCont", c)

\* Mutant: syncEvent has no finally, the promise of a failed call stays in
\* syncingEvents.
callSettledKeepsFailed(S, c) ==
    LET cl == S.calls[c]
        S1 == IF cl.perf /\ cl.pc = "done"
              THEN [S EXCEPT !.syncingEvents = MapRemove(@, cl.key)]
              ELSE S
        waiting(w) == S1.calls[w].pc = "wait" /\ S1.calls[w].waitOn = c
        now_mapped == Lookup(Mapping(S1), cl.key)
        S2 == [S1 EXCEPT
                 !.calls = [w \in 1..Len(@) |->
                    IF ~waiting(w) THEN @[w]
                    ELSE IF cl.pc = "done"
                    THEN [@[w] EXCEPT !.pc = "done", !.st1 = S1.syncState,
                            !.res = IF now_mapped # 0 THEN now_mapped ELSE cl.res]
                    ELSE [@[w] EXCEPT !.pc = "failed", !.st1 = S1.syncState,
                                      !.err = cl.err]],
                 !.mq = @ \o
                    (IF cl.run # 0 THEN <<[k |-> "syncItem", a |-> c]>> ELSE <<>>)
                    \o SelectSeq([w \in 1..Len(S1.calls) |->
                                    [k |-> "callSettled", a |-> w]],
                                 LAMBDA t : waiting(t.a))]
    IN  S2

\* Mutant: the calls that await the promise of call c are never resumed.
callSettledLeavesWaiters(S, c) ==
    LET cl == S.calls[c]
        S1 == IF cl.perf THEN [S EXCEPT !.syncingEvents = MapRemove(@, cl.key)]
              ELSE S
    IN  [S1 EXCEPT !.mq = @ \o (IF cl.run # 0 THEN <<[k |-> "syncItem", a |-> c]>>
                                ELSE <<>>)]

\* The promise of call c has settled: the finally of syncEvent, the calls that
\* awaited it (existingSync), and the caller.
callSettled(S, c) ==
    LET cl == S.calls[c]
        S1 == IF cl.perf THEN [S EXCEPT !.syncingEvents = MapRemove(@, cl.key)]
              ELSE S
        waiting(w) == S1.calls[w].pc = "wait" /\ S1.calls[w].waitOn = c
        now_mapped == Lookup(Mapping(S1), cl.key)
        S2 == [S1 EXCEPT
                 !.calls = [w \in 1..Len(@) |->
                    IF ~waiting(w) THEN @[w]
                    ELSE IF cl.pc = "done"
                    THEN [@[w] EXCEPT !.pc = "done", !.st1 = S1.syncState,
                            !.res = IF now_mapped # 0 THEN now_mapped ELSE cl.res]
                    ELSE [@[w] EXCEPT !.pc = "failed", !.st1 = S1.syncState,
                                      !.err = cl.err]],
                 !.mq = @ \o
                    (IF cl.run # 0 THEN <<[k |-> "syncItem", a |-> c]>> ELSE <<>>)
                    \o SelectSeq([w \in 1..Len(S1.calls) |->
                                    [k |-> "callSettled", a |-> w]],
                                 LAMBDA t : waiting(t.a))]
    IN  S2

RemotePcs ==
    {"refresh", "nokeyInsert", "update", "probe1", "adoptUpdate", "probe2",
     "insert", "dupDelete", "probe3", "postDelete"}

\* The record the post-creation check deletes in favour of: set when more than
\* one record matches, the first that is not the one just created.
OtherThan(S, c) ==
    LET m == Matching(S, Payload(S, c), S.calls[c].ev.title)
    IN  IF Cardinality(m) > 1 THEN FirstOf(S, m \ {S.calls[c].created}) ELSE {0}

CallOutcomes(S, c) ==
    LET cl == S.calls[c]
        victim == cl.key \in world.victims
        title == cl.ev.title
        good ==
            CASE cl.pc = "refresh" -> {Ok}
              [] cl.pc \in {"update", "adoptUpdate"} ->
                    IF Live(S, cl.target) THEN {Ok} ELSE {Gone(404)}
              [] cl.pc \in {"probe1", "probe2"} ->
                    {Found(id) : id \in FirstOf(S, Matching(S, Payload(S, c), title))}
              [] cl.pc = "probe3" -> {Found(id) : id \in OtherThan(S, c)}
              [] cl.pc \in {"insert", "nokeyInsert"} ->
                    IF Len(S.remote) < MaxRemote THEN {Ok} ELSE {}
              [] cl.pc \in {"dupDelete", "postDelete"} ->
                    IF Live(S, cl.target) THEN {Ok} ELSE {Gone(404), Gone(410)}
              [] OTHER -> {}
    IN  IF cl.pc \in {"update", "adoptUpdate", "dupDelete", "postDelete"}
           /\ ~Live(S, cl.target)
        THEN good
        ELSE Outcomes(S, victim /\ cl.pc # "refresh", good)

\* The response o of the outstanding request of call c arrives.
callResponse(S0, c, o) ==
    LET S == Received(S0, S0.calls[c].run, o)
        cl == S.calls[c]
        ok == o.code = 200
        g == Payload(S, c)
        newId == Len(S.remote) + 1
    IN  CASE cl.pc = "refresh" ->
                IF ok THEN Enq([Refreshed(S) EXCEPT !.calls[c].rfr = 2], "callCont", c)
                ELSE Throw(S, c, RefreshFailed)
          [] cl.pc = "nokeyInsert" ->
                IF ok THEN Return(RemoteInsert(S, g, NoKey), c, newId)
                ELSE Throw(S, c, o.code)
          [] cl.pc = "update" ->
                IF ok THEN Return(RemoteUpdate(S, cl.target, g), c, cl.target)
                ELSE Throw(S, c, o.code)
          [] cl.pc = "probe1" ->
                IF ok /\ o.found # 0
                THEN LET S1 == [S EXCEPT !.calls[c].matched = TRUE]
                     IN  IF Lookup(Mapping(S1), cl.key) # 0
                         THEN Return(S1, c, Lookup(Mapping(S1), cl.key))
                         ELSE IssueUpdate(S1, c, "adoptUpdate", o.found)
                ELSE BeforeCreate(S, c)
          [] cl.pc = "adoptUpdate" ->
                IF ok
                THEN Return(Adopt(RemoteUpdate(S, cl.target, g), c, cl.target, 1),
                            c, cl.target)
                ELSE BeforeCreate(S, c)
          [] cl.pc = "probe2" ->
                IF ok /\ o.found # 0
                THEN Return(Adopt([S EXCEPT !.calls[c].matched = TRUE], c,
                                  o.found, 2), c, o.found)
                ELSE IssueInsert(S, c, "insert")
          [] cl.pc = "insert" ->
                IF ~ok THEN Throw(S, c, o.code)
                ELSE afterInsert([RemoteInsert(S, g, cl.key)
                                     EXCEPT !.calls[c].created = newId,
                                            !.calls[c].mapAtRet =
                                                Lookup(Mapping(S), cl.key)],
                                 c, g)
          [] cl.pc = "dupDelete" ->
                Return(IF ok THEN RemoteDelete(S, cl.target) ELSE S, c,
                       Lookup(Mapping(S), cl.key))
          [] cl.pc = "probe3" ->
                IF ok /\ o.found # 0
                THEN IssueDelete([S EXCEPT !.calls[c].other = o.found], c,
                                 "postDelete", cl.created)
                ELSE TrackCreated(S, c)
          [] cl.pc = "postDelete" ->
                IF ok
                THEN Return(Adopt(RemoteDelete(S, cl.target), c, cl.other, 3),
                            c, cl.other)
                ELSE TrackCreated(S, c)
          [] OTHER -> S

----------------------------------------------------------------------------
(* deleteEvent(obsidianEventId).  A call is at one of these places:         *)
(*   refresh      awaiting refreshAccessToken                               *)
(*   delete       awaiting events.delete of the mapped record               *)
(*   fuzzyDelete  awaiting events.delete of the record of a matching key    *)
(*   done, failed                                                           *)
(* req counts the remote deletes it issued, code is the answer to the last;  *)
(* mappedAfter and pendingAfter tell whether its key had a mapping entry    *)
(* and was pending when it settled.                                         *)

UpperCase == <<"A", "D", "P", "X">>
LowerCase == <<"a", "d", "p", "x">>

toLowerCase(k) ==
    [i \in 1..Len(k) |->
        IF \E j \in 1..Len(UpperCase) : UpperCase[j] = k[i]
        THEN LowerCase[CHOOSE j \in 1..Len(UpperCase) : UpperCase[j] = k[i]]
        ELSE k[i]]

endsWith(k, suffix) ==
    /\ Len(suffix) <= Len(k)
    /\ SubSeq(k, Len(k) - Len(suffix) + 1, Len(k)) = suffix

\* deleteEvent lines 703-709: the first key of the mapping that matches, or NoKey
matchingKey(m, obsidianEventId) ==
    LET hit(i) == \/ m[i][1] = obsidianEventId
                  \/ toLowerCase(m[i][1]) = toLowerCase(obsidianEventId)
                  \/ endsWith(m[i][1], obsidianEventId)
                  \/ endsWith(obsidianEventId, m[i][1])
    IN  IF \E i \in 1..Len(m) : hit(i)
        THEN m[CHOOSE i \in 1..Len(m) : hit(i) /\ \A j \in 1..(i - 1) : ~hit(j)][1]
        ELSE NoKey

includes(q, k) == \E i \in 1..Len(q) : q[i] = k

\* indexOf + splice(index, 1): the first occurrence goes
spliceOut(q, k) ==
    IF includes(q, k)
    THEN LET i == CHOOSE i \in 1..Len(q) : q[i] = k /\ \A j \in 1..(i - 1) : q[j] # k
         IN  SubSeq(q, 1, i - 1) \o SubSeq(q, i + 1, Len(q))
    ELSE q

addPendingDeletion(S, eventKey) ==
    IF includes(S.syncState.pendingDeletions, eventKey) THEN S
    ELSE [S EXCEPT !.syncState.pendingDeletions = Append(@, eventKey)]

NotFoundInMapping == 3      \* "No Google Calendar event found for: ..."
AuthExpired == 4            \* "Google Calendar authentication expired. ..."

DelSettle(S, d, pc, err) ==
    Enq([S EXCEPT !.dels[d].pc = pc, !.dels[d].err = err,
                  !.dels[d].st1 = S.syncState,
                  !.dels[d].mappedAfter = Lookup(Mapping(S), S.dels[d].key) # 0,
                  !.dels[d].pendingAfter =
                      includes(S.syncState.pendingDeletions, S.dels[d].key)],
        "delSettled", d)

DelReturn(S, d) == DelSettle(S, d, "done", 0)

DelThrow(S, d, err) == DelSettle(S, d, "failed", err)

DelIssue(S, d, pc, id) ==
    [Issued(S, S.dels[d].run)
        EXCEPT !.dels[d].pc = pc, !.dels[d].target = id, !.dels[d].req = @ + 1]

\* deleteEvent lines 743-751 and 755-764: forget the key
Forget(S, k) ==
    [S EXCEPT !.syncState.eventMapping = MapDel(@, k),
              !.syncState.pendingDeletions = spliceOut(@, k)]

\* deleteEvent(obsidianEventId) up to its first await; run, idx as for syncEvent.
deleteEvent(S, obsidianEventId, run, idx) ==
    LET d == Len(S.dels) + 1
        googleEventId == Lookup(Mapping(S), obsidianEventId)
        found == matchingKey(Mapping(S), obsidianEventId)
        S1 == [S EXCEPT !.dels = Append(@,
                 [pc |-> "start", key |-> obsidianEventId, run |-> run, idx |-> idx,
                  target |-> googleEventId, matched |-> NoKey, req |-> 0,
                  code |-> 0, err |-> 0, mappedAfter |-> FALSE,
                  pendingAfter |-> FALSE,
                  st0 |-> S.syncState, st1 |-> S.syncState,
                  rfr |-> 0, cr0 |-> S.credentials,
                  before |-> IF run # 0 THEN {}
                             ELSE {x \in 1..Len(S.dels) :
                                      S.dels[x].pc \in {"done", "failed"}}])]
    IN  IF ~isAuthenticated(S1) THEN DelThrow(S1, d, NotAuthenticated)
        ELSE IF googleEventId = 0
        THEN IF found # NoKey
             THEN DelIssue([S1 EXCEPT !.dels[d].matched = found], d,
                           "fuzzyDelete", Lookup(Mapping(S1), found))
             ELSE IF includes(S1.syncState.pendingDeletions, obsidianEventId)
             THEN DelReturn(S1, d)
             ELSE DelThrow(addPendingDeletion(S1, obsidianEventId), d,
                           NotFoundInMapping)
        ELSE IF RefreshDue(S1) THEN [S1 EXCEPT !.dels[d].pc = "refresh", !.dels[d].rfr = 1]
        ELSE Enq(S1, "delCont", d)

\* deleteEvent after refreshTokenIfNeeded
deleteEventBody(S, d) == DelIssue(S, d, "delete", S.dels[d].target)

\* deleteEvent lines 770-776: any other error
DelRetryLater(S, d, err) ==
    DelThrow(addPendingDeletion(S, S.dels[d].key), d, err)

DelOutcomes(S, d) ==
    LET dl == S.dels[d]
    IN  CASE dl.pc = "refresh" -> {Ok} \cup Injected(S)
          [] dl.pc \in {"delete", "fuzzyDelete"} ->
                IF Live(S, dl.target)
                THEN Outcomes(S, dl.key \in world.victims, {Ok})
                ELSE {Gone(404), Gone(410)}
          [] OTHER -> {}

\* The response o of the outstanding request of deleteEvent call d arrives.
delResponse(S0, d, o) ==
    LET dl == S0.dels[d]
        S == [Received(S0, dl.run, o) EXCEPT !.dels[d].code = o.code]
        ok == o.code = 200
    IN  CASE dl.pc = "refresh" ->
                IF ok THEN deleteEventBody([Refreshed(S) EXCEPT !.dels[d].rfr = 2], d)
                ELSE DelRetryLater(S, d, RefreshFailed)
          [] dl.pc = "delete" ->
                IF ok THEN DelReturn(Forget(RemoteDelete(S, dl.target), dl.key), d)
                ELSE IF o.code = 404 THEN DelReturn(Forget(S, dl.key), d)
                ELSE IF o.code = 401 THEN DelThrow(S, d, AuthExpired)
                ELSE DelRetryLater(S, d, o.code)
          [] dl.pc = "fuzzyDelete" ->
                IF ok
                THEN DelReturn([RemoteDelete(S, dl.target) EXCEPT
                                  !.syncState.eventMapping = MapDel(@, dl.matched)], d)
                ELSE DelThrow(S, d, o.code)
          [] OTHER -> S

\* The promise of deleteEvent call d has settled: tell the run that made it.
delSettled(S, d) ==
    IF S.dels[d].run # 0 THEN Enq(S, "delItem", d) ELSE S

----------------------------------------------------------------------------
(* A reconciliation run: GoogleCalendar.syncAllEvents and                   *)
(* syncEventsWithPaths.  A run is at one of these places:                   *)
(*   getEvents     awaiting the Local Event Source                          *)
(*   refresh       awaiting refreshAccessToken                              *)
(*   pending       in a batch of processPendingDeletions                    *)
(*   sync          in a batch of syncEvent calls                            *)
(*   orphan        in a batch of deleteOrphanedEvents                       *)
(*   pendingDelay, syncDelay, orphanDelay   in the pause between batches    *)
(*   done, failed                                                           *)
(* batch holds the promises handed to Promise.allSettled: delay (in the     *)
(* pause before its request), run, ful(filled), rej(ected).  History: the    *)
(* todo lists; log, the deletes deleteOrphanedEvents requested; the mapping *)
(* and the pending list when the phases began (mapP, mapS, pendS, mapO) and *)
(* when the run returned (mapEnd, pendEnd), the live remote records then    *)
(* (liveEnd).                                                               *)

BATCH_SIZE == 5

NotReady == 5               \* "Calendar is not ready for syncing"

getTitleDateKey(event) ==
    LET dateStr == IF event.type = "single" THEN event.date
                   ELSE IF event.type = "rrule" THEN event.startDate
                   ELSE 0
    IN  IF event.title = "" \/ dateStr = 0 THEN NoKey
        ELSE <<event.title, dateStr>>

keyOf(it) == IF it.filePath # NoKey THEN it.filePath ELSE it.event.id

\* eventMap is a sequence of <<map key, item>> in insertion order, a map key
\* being <<eventKey, 0>> or <<NoKey, n>> for the n-th "no-key-<random>";
\* titleDateMap is a sequence of <<titleDateKey, map key>>.
emHas(em, mk) == \E i \in 1..Len(em) : em[i][1] = mk

emSet(em, mk, it) ==
    IF emHas(em, mk)
    THEN [i \in 1..Len(em) |-> IF em[i][1] = mk THEN <<mk, it>> ELSE em[i]]
    ELSE Append(em, <<mk, it>>)

emGet(em, mk) == em[CHOOSE i \in 1..Len(em) : em[i][1] = mk][2]

RECURSIVE dedupFrom(_, _, _, _)
dedupFrom(input, n, em, td) ==
    IF n > Len(input) THEN em
    ELSE
      LET it == input[n]
          eventKey == keyOf(it)
          mk == <<eventKey, 0>>
          titleDateKey == getTitleDateKey(it.event)
          known == titleDateKey # NoKey /\ titleDateKey \in MapKeys(td)
          existingKey == Lookup(td, titleDateKey)
          fallbackKey == <<NoKey, n>>
      IN  IF eventKey = NoKey
          THEN IF known /\ emHas(em, existingKey)
               THEN dedupFrom(input, n + 1, em, td)
               ELSE dedupFrom(input, n + 1, emSet(em, fallbackKey, it),
                              IF titleDateKey # NoKey
                              THEN MapSet(td, titleDateKey, fallbackKey) ELSE td)
          ELSE IF emHas(em, mk)
          THEN dedupFrom(input, n + 1,
                         IF emGet(em, mk).filePath = NoKey /\ it.filePath # NoKey
                         THEN emSet(em, mk, it) ELSE em,
                         td)
          ELSE IF known /\ existingKey # mk /\ emHas(em, existingKey)
          THEN dedupFrom(input, n + 1, em, td)
          ELSE dedupFrom(input, n + 1, emSet(em, mk, it),
                         IF titleDateKey # NoKey
                         THEN MapSet(td, titleDateKey, mk) ELSE td)

\* syncEventsWithPaths lines 1030-1089
deduplicatedEvents(input) ==
    LET em == dedupFrom(input, 1, <<>>, <<>>)
    IN  [i \in 1..Len(em) |-> em[i][2]]

\* syncEventsWithPaths lines 1093-1104
obsidianEventKeys(events) ==
    ({keyOf(events[i]) : i \in 1..Len(events)} \cup
     {events[i].event.id : i \in 1..Len(events)}) \ {NoKey}

NewRun ==
    [cal |-> 1, pc |-> "start", input |-> <<>>, i |-> 0, batch |-> <<>>,
     pendTodo |-> <<>>, remaining |-> <<>>, syncTodo |-> <<>>, orphTodo |-> <<>>,
     keys |-> {}, pend |-> [deleted |-> 0, failed |-> 0],
     results |-> [synced |-> 0, skipped |-> 0, failed |-> 0, deleted |-> 0],
     deletedCount |-> 0, err |-> 0, auth401 |-> FALSE, after401 |-> FALSE,
     mapP |-> <<>>, mapS |-> <<>>, pendS |-> <<>>, mapO |-> <<>>,
     mapEnd |-> <<>>, pendEnd |-> <<>>, liveEnd |-> {}, log |-> <<>>,
     errs |-> 0, rfr |-> 0, cr0 |-> NoCredentials,
     st0 |-> NoSyncState, st1 |-> NoSyncState, before |-> {}]

RunOver(rn) == rn.pc \in {"done", "failed"}

RunThrow(S, r, err) ==
    [S EXCEPT !.runs[r].pc = "failed", !.runs[r].err = err,
              !.runs[r].st1 = S.syncState]

Promise == [st |-> "delay", val |-> 0, code |-> 0]

Todo(rn) ==
    CASE rn.pc \in {"pending", "pendingDelay"} -> rn.pendTodo
      [] rn.pc \in {"sync", "syncDelay"} -> rn.syncTodo
      [] OTHER -> rn.orphTodo

\* The body of the async function mapped over the batch, for its j-th element,
\* from after the pause to its first await.
startItem(S, r, j) ==
    LET rn == S.runs[r]
        x == Todo(rn)[rn.i + j]
        S1 == [S EXCEPT !.runs[r].batch[j].st = "run"]
    IN  CASE rn.pc = "pending" -> deleteEvent(S1, x, r, j)
          [] rn.pc = "sync" -> syncEvent(S1, x.event, x.filePath, r, j)
          [] OTHER -> [Issued(S1, r) EXCEPT
                         !.runs[r].log = Append(@, <<x.obsidianKey, x.googleId>>)]

Min(a, b) == IF a < b THEN a ELSE b

\* Mutant: a batch is all that is left of the list.
startBatchWhole(S, r) ==
    LET rn == S.runs[r]
        n == Len(Todo(rn)) - rn.i
    IN  startItem([S EXCEPT !.runs[r].batch = [j \in 1..n |-> Promise]], r, 1)

\* batch = todo.slice(i, i + BATCH_SIZE); Promise.allSettled(batch.map(...)):
\* the first element has no pause.
startBatch(S, r) ==
    LET rn == S.runs[r]
        n == Min(BATCH_SIZE, Len(Todo(rn)) - rn.i)
    IN  startItem([S EXCEPT !.runs[r].batch = [j \in 1..n |-> Promise]], r, 1)

\* syncEventsWithPaths lines 1145-1162
finishRun(S, r, deletedCount) ==
    [S EXCEPT !.runs[r].results.deleted = deletedCount,
              !.syncState.lastSyncTime = now,
              !.runs[r].mapEnd = Mapping(S),
              !.runs[r].pendEnd = S.syncState.pendingDeletions,
              !.runs[r].liveEnd = {id \in 1..Len(S.remote) : Live(S, id)},
              !.runs[r].pc = "done"]

\* Object.entries(eventMapping)
entries(m) ==
    [i \in 1..Len(m) |-> [obsidianKey |-> m[i][1], googleId |-> m[i][2], code |-> 0]]

\* deleteOrphanedEvents from line 926 on
deleteInBatches(S, r, eventsToDelete) ==
    LET S1 == [S EXCEPT !.runs[r].mapO = Mapping(S),
                        !.runs[r].orphTodo = eventsToDelete,
                        !.runs[r].i = 0, !.runs[r].batch = <<>>]
    IN  IF eventsToDelete = <<>> THEN finishRun(S1, r, 0)
        ELSE startBatch([S1 EXCEPT !.runs[r].pc = "orphan"], r)

\* Mutant: every mapped record is deleted, whether its key is local or not.
deleteOrphanedEventsAll(S, r) == deleteInBatches(S, r, entries(Mapping(S)))

deleteOrphanedEvents(S, r) ==
    deleteInBatches(S, r,
        SelectSeq(entries(Mapping(S)),
                  LAMBDA e : e.obsidianKey \notin S.runs[r].keys))

\* syncEventsWithPaths after processPendingDeletions
syncPhase(S, r) ==
    LET events == deduplicatedEvents(S.runs[r].input)
        S1 == [S EXCEPT !.runs[r].mapS = Mapping(S),
                        !.runs[r].pendS = S.syncState.pendingDeletions,
                        !.runs[r].syncTodo = events,
                        !.runs[r].keys = obsidianEventKeys(events),
                        !.runs[r].i = 0, !.runs[r].batch = <<>>]
    IN  IF events = <<>> THEN deleteOrphanedEvents(S1, r)
        ELSE startBatch([S1 EXCEPT !.runs[r].pc = "sync"], r)

processPendingDeletions(S, r) ==
    LET S1 == [S EXCEPT !.runs[r].mapP = Mapping(S)]
    IN  IF S.syncState.pendingDeletions = <<>> THEN syncPhase(S1, r)
        ELSE startBatch([S1 EXCEPT !.runs[r].pc = "pending",
                                   !.runs[r].pendTodo = S.syncState.pendingDeletions,
                                   !.runs[r].remaining = <<>>,
                                   !.runs[r].i = 0], r)

\* Mutant: syncEventsWithPaths does not look at isAuthenticated.
syncEventsWithPathsUnchecked(S0, r) ==
    LET S == [S0 EXCEPT !.runs[r].cr0 = S0.credentials,
                        !.runs[r].st0 = S0.syncState]
    IN  IF RefreshDue(S)
        THEN [S EXCEPT !.runs[r].pc = "refresh", !.runs[r].rfr = 1]
        ELSE Enq(S, "runCont", r)

syncEventsWithPaths(S0, r) ==
    LET S == [S0 EXCEPT !.runs[r].cr0 = S0.credentials,
                        !.runs[r].st0 = S0.syncState]
    IN  IF ~isAuthenticated(S) THEN RunThrow(S, r, NotAuthenticated)
        ELSE IF RefreshDue(S)
        THEN [S EXCEPT !.runs[r].pc = "refresh", !.runs[r].rfr = 1]
        ELSE Enq(S, "runCont", r)

isSyncReady(S) == world.syncEnabled /\ isAuthenticated(S)

\* GoogleCalendar.syncAllEvents up to its await of getEvents()
syncAllEvents(S) ==
    LET r == Len(S.runs) + 1
        S1 == [S EXCEPT !.runs = Append(@,
                 [NewRun EXCEPT !.before = {x \in 1..Len(S.runs) :
                                               RunOver(S.runs[x])}])]
    IN  IF ~isSyncReady(S1) THEN RunThrow(S1, r, NotReady)
        ELSE [S1 EXCEPT !.runs[r].pc = "getEvents"]

\* A calendar other than calendar 1 is a GoogleCalendar of its own, with its
\* own engine; of it the model keeps whether it is enabled and holds a token
\* (world.others), and its runs, which have nothing to sync.
calIsSyncReady(S, cal) ==
    IF cal = 1 THEN isSyncReady(S)
    ELSE world.others[cal].syncEnabled /\ world.others[cal].authenticated

calSyncAllEvents(S, cal) ==
    IF cal = 1 THEN syncAllEvents(S)
    ELSE LET r == Len(S.runs) + 1
             S1 == [S EXCEPT !.runs = Append(@, [NewRun EXCEPT !.cal = cal])]
         IN  IF ~calIsSyncReady(S1, cal) THEN RunThrow(S1, r, NotReady)
             ELSE [S1 EXCEPT !.runs[r].pc = "getEvents"]

\* GoogleCalendar.modifyEvent once the local calendar has modified the note
\* at location: lines 289-300.  loc keeps the location with the call.
modifyEvent(S, location, newEvent) ==
    IF isSyncReady(S)
    THEN [syncEvent(S, newEvent, NoKey, 0, 0) EXCEPT
             !.calls[Len(S.calls) + 1].loc = location]
    ELSE S

\* The loops over batchResults
RECURSIVE countPending(_, _, _)
countPending(S, r, j) ==
    LET rn == S.runs[r]
        eventKey == rn.pendTodo[rn.i + j]
    IN  IF j > Len(rn.batch) THEN S
        ELSE IF rn.batch[j].st = "ful"
        THEN countPending([S EXCEPT !.runs[r].pend.deleted = @ + 1,
                                    !.syncState.eventMapping = MapDel(@, eventKey)],
                          r, j + 1)
        ELSE countPending([S EXCEPT !.runs[r].pend.failed = @ + 1,
                                    !.runs[r].remaining = Append(@, eventKey)],
                          r, j + 1)

RECURSIVE countSynced(_, _, _)
countSynced(S, r, j) ==
    LET rn == S.runs[r]
    IN  IF j > Len(rn.batch) THEN S
        ELSE IF rn.batch[j].st = "ful"
        THEN IF rn.batch[j].val # 0
             THEN countSynced([S EXCEPT !.runs[r].results.synced = @ + 1], r, j + 1)
             ELSE countSynced([S EXCEPT !.runs[r].results.skipped = @ + 1], r, j + 1)
        ELSE countSynced([S EXCEPT !.runs[r].results.failed = @ + 1], r, j + 1)

RECURSIVE countOrphans(_, _, _)
\* Mutant: a rejected orphan delete is counted and its entry removed.
countOrphansForgets(S, r, j) ==
    LET rn == S.runs[r]
        obsidianKey == rn.orphTodo[rn.i + j].obsidianKey
    IN  IF j > Len(rn.batch) THEN S
        ELSE countOrphans([S EXCEPT !.runs[r].deletedCount = @ + 1,
                                    !.syncState.eventMapping = MapDel(@, obsidianKey)],
                          r, j + 1)

countOrphans(S, r, j) ==
    LET rn == S.runs[r]
        obsidianKey == rn.orphTodo[rn.i + j].obsidianKey
    IN  IF j > Len(rn.batch) THEN S
        ELSE IF rn.batch[j].st = "ful" \/ rn.batch[j].code = 410
        THEN countOrphans([S EXCEPT !.runs[r].deletedCount = @ + 1,
                                    !.syncState.eventMapping = MapDel(@, obsidianKey)],
                          r, j + 1)
        ELSE countOrphans(S, r, j + 1)

countResults(S, r) ==
    CASE S.runs[r].pc = "pending" -> countPending(S, r, 1)
      [] S.runs[r].pc = "sync" -> countSynced(S, r, 1)
      [] OTHER -> countOrphans(S, r, 1)

\* After the loop over batchResults: the pause before the next batch, or the
\* next phase.
afterBatch(S, r) ==
    LET rn == S.runs[r]
        pc == rn.pc
        more == rn.i + BATCH_SIZE < Len(Todo(rn))
    IN  CASE pc = "pending" ->
                IF more THEN [S EXCEPT !.runs[r].pc = "pendingDelay"]
                ELSE syncPhase([S EXCEPT !.syncState.pendingDeletions =
                                            rn.remaining], r)
          [] pc = "sync" ->
                IF more THEN [S EXCEPT !.runs[r].pc = "syncDelay"]
                ELSE deleteOrphanedEvents(S, r)
          [] OTHER ->
                IF more THEN [S EXCEPT !.runs[r].pc = "orphanDelay"]
                ELSE finishRun(S, r, rn.deletedCount)

\* Mutant: the rejected deletes of an orphan batch are not looked at.
batchDoneIgnoresRejected(S, r) ==
    afterBatch(IF S.runs[r].pc = "orphan" THEN S ELSE countResults(S, r), r)

\* Mutant: the keys whose pending deletion failed again are not kept.
batchDoneForgetsFailed(S, r) ==
    afterBatch([countResults(S, r) EXCEPT !.runs[r].remaining = <<>>], r)

\* Mutant: a rejected syncEvent ends the run.
batchDoneAbortsOnFailure(S, r) ==
    IF S.runs[r].pc = "sync" /\ \E j \in 1..Len(S.runs[r].batch) :
                                    S.runs[r].batch[j].st = "rej"
    THEN RunThrow(S, r, S.runs[r].batch[1].code)
    ELSE afterBatch(countResults(S, r), r)

\* Promise.allSettled of the batch has resolved.
batchDone(S, r) == afterBatch(countResults(S, r), r)

\* Mutant: the batch is over as soon as one of its promises has settled.
itemSettledAny(S, r, j, st, val, code) ==
    Enq([S EXCEPT !.runs[r].batch[j] = [st |-> st, val |-> val, code |-> code]],
        "batchDone", r)

\* The j-th promise of the batch of run r has settled.
itemSettled(S, r, j, st, val, code) ==
    LET S1 == [S EXCEPT !.runs[r].batch[j] = [st |-> st, val |-> val, code |-> code]]
    IN  IF \A x \in 1..Len(S1.runs[r].batch) :
              S1.runs[r].batch[x].st \in {"ful", "rej"}
        THEN Enq(S1, "batchDone", r)
        ELSE S1

syncItem(S, c) ==
    LET cl == S.calls[c]
    IN  IF cl.pc = "done" THEN itemSettled(S, cl.run, cl.idx, "ful", cl.res, 0)
        ELSE itemSettled(S, cl.run, cl.idx, "rej", 0, cl.err)

delItem(S, d) ==
    LET dl == S.dels[d]
    IN  IF dl.pc = "done" THEN itemSettled(S, dl.run, dl.idx, "ful", 0, 0)
        ELSE itemSettled(S, dl.run, dl.idx, "rej", 0, dl.err)

\* The pause between two batches is over.
nextBatch(S, r) ==
    LET pc == S.runs[r].pc
    IN  startBatch([S EXCEPT !.runs[r].i = @ + BATCH_SIZE,
                             !.runs[r].pc = CASE pc = "pendingDelay" -> "pending"
                                              [] pc = "syncDelay" -> "sync"
                                              [] OTHER -> "orphan"], r)

RunOutcomes(S, r, j) ==
    LET rn == S.runs[r]
    IN  CASE rn.pc = "refresh" -> {Ok} \cup Injected(S)
          [] rn.pc = "orphan" ->
                LET e == rn.orphTodo[rn.i + j]
                IN  IF ~Live(S, e.googleId) THEN {Gone(404), Gone(410)}
                    ELSE Outcomes(S, e.obsidianKey \in world.victims, {Ok})
          [] OTHER -> {}

\* Mutant: a failed token refresh is logged and the run goes on.
runResponseSwallows(S0, r, j, o) ==
    LET S == Received(S0, r, o)
        rn == S.runs[r]
        e == rn.orphTodo[rn.i + j]
    IN  CASE rn.pc = "refresh" ->
                IF o.code = 200
                THEN processPendingDeletions(
                        [Refreshed(S) EXCEPT !.runs[r].rfr = 2], r)
                ELSE processPendingDeletions(S, r)
          [] rn.pc = "orphan" ->
                LET S1 == [S EXCEPT !.runs[r].orphTodo[rn.i + j].code = o.code]
                IN  IF o.code = 200
                    THEN itemSettled(
                           [RemoteDelete(S1, e.googleId) EXCEPT
                              !.syncState.eventMapping = MapDel(@, e.obsidianKey)],
                           r, j, "ful", 0, 0)
                    ELSE itemSettled(S1, r, j, "rej", 0, o.code)
          [] OTHER -> S

\* The response o to a request the run made itself: the token refresh, or the
\* events.delete of the j-th orphan of the batch.
runResponse(S0, r, j, o) ==
    LET S == Received(S0, r, o)
        rn == S.runs[r]
        e == rn.orphTodo[rn.i + j]
    IN  CASE rn.pc = "refresh" ->
                IF o.code = 200
                THEN processPendingDeletions(
                        [Refreshed(S) EXCEPT !.runs[r].rfr = 2], r)
                ELSE RunThrow(S, r, RefreshFailed)
          [] rn.pc = "orphan" ->
                LET S1 == [S EXCEPT !.runs[r].orphTodo[rn.i + j].code = o.code]
                IN  IF o.code = 200
                    THEN itemSettled(
                           [RemoteDelete(S1, e.googleId) EXCEPT
                              !.syncState.eventMapping = MapDel(@, e.obsidianKey)],
                           r, j, "ful", 0, 0)
                    ELSE itemSettled(S1, r, j, "rej", 0, o.code)
          [] OTHER -> S

----------------------------------------------------------------------------
(* SyncScheduler.  timers is the set of interval timers the window holds,   *)
(* each with its id and its period in milliseconds; nextTimer is the id the *)
(* next window.setInterval returns; intervalId 0 is null.                   *)

DefaultMinutes == 5

\* The scheduler the plugin makes at load: constructed, then calendar 1
\* registered with it.
NewScheduler ==
    [intervalId |-> 0, intervalMinutes |-> DefaultMinutes, googleCalendars |-> <<1>>,
     isRunning |-> FALSE, timers |-> {}, nextTimer |-> 1]

registerCalendar(sc, calendar) ==
    IF \E i \in 1..Len(sc.googleCalendars) : sc.googleCalendars[i] = calendar
    THEN sc
    ELSE [sc EXCEPT !.googleCalendars = Append(@, calendar)]

\* calendarsToSync.map((calendar) => calendar.syncAllEvents()): each call runs
\* to its first await, in the order of the array
RECURSIVE mapSyncAllEvents(_, _)
mapSyncAllEvents(S, calendarsToSync) ==
    IF calendarsToSync = <<>> THEN S
    ELSE mapSyncAllEvents(calSyncAllEvents(S, Head(calendarsToSync)),
                          Tail(calendarsToSync))

\* Mutant: syncAll does not filter by isSyncReady.
syncAllUnfiltered(S) == mapSyncAllEvents(S, S.sched.googleCalendars)

\* syncAll up to its await of Promise.allSettled
syncAll(S) ==
    LET calendarsToSync == SelectSeq(S.sched.googleCalendars,
                                     LAMBDA cal : calIsSyncReady(S, cal))
    IN  IF calendarsToSync = <<>> THEN S ELSE mapSyncAllEvents(S, calendarsToSync)

\* Mutant: start() does not look at isRunning.
startAlways(S) ==
    LET S1 == syncAll([S EXCEPT !.sched.isRunning = TRUE])
        id == S1.sched.nextTimer
        ms == S1.sched.intervalMinutes * 60 * 1000
    IN  [S1 EXCEPT !.sched.intervalId = id,
                   !.sched.timers = @ \cup {[id |-> id, ms |-> ms]},
                   !.sched.nextTimer = id + 1]

start(S) ==
    IF S.sched.isRunning THEN S
    ELSE LET S1 == syncAll([S EXCEPT !.sched.isRunning = TRUE])
             id == S1.sched.nextTimer
             ms == S1.sched.intervalMinutes * 60 * 1000
         IN  [S1 EXCEPT !.sched.intervalId = id,
                        !.sched.timers = @ \cup {[id |-> id, ms |-> ms]},
                        !.sched.nextTimer = id + 1]

stop(S) ==
    [S EXCEPT !.sched.timers = {t \in @ : t.id # S.sched.intervalId},
              !.sched.intervalId = 0,
              !.sched.isRunning = FALSE]

\* FullCalendarPlugin.saveSettings: the sync state and the tokens of the
\* calendar go to the plugin data; the cache makes the calendar anew from the
\* plugin data, registering it with the scheduler of that moment; that
\* scheduler is stopped and, with a calendar enabled, a new one started, with
\* which no calendar is registered.
saveSettings(S) ==
    LET creds == getCredentials(S)
        data == [googleSyncStates |-> getSyncState(S),
                 accessToken |-> IF creds.accessToken # 0 THEN creds.accessToken
                                 ELSE S.settings.accessToken,
                 refreshToken |-> IF creds.refreshToken THEN creds.refreshToken
                                  ELSE S.settings.refreshToken,
                 tokenExpiry |-> IF creds.tokenExpiry # 0 THEN creds.tokenExpiry
                                 ELSE S.settings.tokenExpiry]
        withService == world.syncEnabled /\ data.accessToken # 0 /\ data.refreshToken
        S1 == [S EXCEPT
                 !.settings = data,
                 !.credentials = IF withService
                                 THEN [access_token |-> data.accessToken,
                                       refresh_token |-> data.refreshToken,
                                       expiry_date |-> data.tokenExpiry]
                                 ELSE NoCredentials,
                 !.syncState = IF withService
                               THEN loadSyncState(data.googleSyncStates)
                               ELSE NoSyncState,
                 !.syncingEvents = EmptyMap]
        S2 == stop(S1)
        enabled == world.syncEnabled \/
                   \E i \in 1..Len(S.sched.googleCalendars) :
                       /\ S.sched.googleCalendars[i] # 1
                       /\ world.others[S.sched.googleCalendars[i]].syncEnabled
        S3 == [S2 EXCEPT !.sched.googleCalendars = <<>>,
                         !.sched.intervalMinutes = DefaultMinutes]
    IN  IF enabled THEN start(S3) ELSE S3

\* Mutant: setInterval only records the period.
setIntervalKeepsTimer(S, minutes) == [S EXCEPT !.sched.intervalMinutes = minutes]

setInterval(S, minutes) ==
    LET S1 == [S EXCEPT !.sched.intervalMinutes = minutes]
    IN  IF S1.sched.isRunning THEN start(stop(S1)) ELSE S1

----------------------------------------------------------------------------
(* The microtask queue *)

Micro(S, t) ==
    CASE t.k = "callCont" -> syncEventBody(S, t.a)
      [] t.k = "callSettled" -> callSettled(S, t.a)
      [] t.k = "delCont" -> deleteEventBody(S, t.a)
      [] t.k = "delSettled" -> delSettled(S, t.a)
      [] t.k = "syncItem" -> syncItem(S, t.a)
      [] t.k = "delItem" -> delItem(S, t.a)
      [] t.k = "runCont" -> processPendingDeletions(S, t.a)
      [] t.k = "batchDone" -> batchDone(S, t.a)
      [] OTHER -> S

RECURSIVE Drain(_)
Drain(S) ==
    IF S.mq = <<>> THEN S
    ELSE Drain(Micro([S EXCEPT !.mq = Tail(@)], Head(S.mq)))

----------------------------------------------------------------------------
(* Actions *)

HostCalls == {c \in 1..Len(calls) : calls[c].run = 0}

\* The host calls syncEvent(event, filePath).
HostSyncEvent ==
    /\ Cardinality(HostCalls) < MaxCalls
    /\ \E it \in world.items :
          Commit(Drain(syncEvent(Cur, it.event, it.filePath, 0, 0)))

\* The response of the outstanding remote request of a syncEvent call arrives.
CallResponse ==
    \E c \in 1..Len(calls) :
        /\ calls[c].pc \in RemotePcs
        /\ \E o \in CallOutcomes(Cur, c) : Commit(Drain(callResponse(Cur, c, o)))

\* The host calls deleteEvent(obsidianEventId).
HostDels == {d \in 1..Len(dels) : dels[d].run = 0}

Idle == /\ \A r \in 1..Len(runs) : RunOver(runs[r])
        /\ \A d \in 1..Len(dels) : dels[d].pc \in {"done", "failed"}
        /\ \A c \in 1..Len(calls) : Settled(calls[c])

HostDeleteEvent ==
    /\ Idle
    /\ Cardinality(HostDels) < MaxDels
    /\ \E k \in world.delKeys : Commit(Drain(deleteEvent(Cur, k, 0, 0)))

\* The host calls syncEvent(event, filePath) while nothing else is going on.
HostSyncEventAlone ==
    /\ Idle
    /\ HostSyncEvent

\* The user edits the title of an event of the calendar, or saves it as it
\* is, while nothing else is going on.
HostModifyEvent ==
    /\ Idle
    /\ Cardinality(HostCalls) < MaxCalls
    /\ \E i \in 1..Len(local), title \in world.titles :
          LET newEvent == [local[i].event EXCEPT !.title = title]
          IN  CommitLocal(Drain(modifyEvent(Cur, local[i].filePath, newEvent)),
                          [local EXCEPT ![i].event = newEvent])

\* events.insert of the payload of the one event of the calendar, with ISO
\* dates, on an empty remote calendar: the record holds the payload as sent.
ConvertEvent ==
    /\ remote = <<>>
    /\ remote' = <<[live |-> TRUE, body |-> googleEvent(local[1].event)]>>
    /\ UNCHANGED <<world, syncState, syncingEvents, credentials, calls, dels,
                   runs, local, sched, now, settings, faultsLeft>>

\* The response of the outstanding remote request of a deleteEvent call arrives.
DelResponse ==
    \E d \in 1..Len(dels) :
        /\ dels[d].pc \in {"refresh", "delete", "fuzzyDelete"}
        /\ \E o \in DelOutcomes(Cur, d) : Commit(Drain(delResponse(Cur, d, o)))

\* The host calls syncAllEvents() while nothing else is going on.
HostSyncAll ==
    /\ Idle
    /\ Len(runs) < MaxRuns
    /\ Commit(Drain(syncAllEvents(Cur)))

\* The host calls syncEventsWithPaths(eventsWithPaths) of the engine with the
\* local events, while nothing else is going on.
HostSyncEventsWithPaths ==
    /\ Idle
    /\ Len(runs) < MaxRuns
    /\ Commit(Drain(syncEventsWithPaths(
            [Cur EXCEPT !.runs = Append(@,
                [NewRun EXCEPT !.input = local,
                               !.before = {x \in 1..Len(runs) : RunOver(runs[x])}])],
            Len(runs) + 1)))

\* getEvents() of the Local Event Source resolves: syncAllEvents lines 311-317.
GetEvents ==
    \E r \in 1..Len(runs) :
        /\ runs[r].cal = 1
        /\ runs[r].pc = "getEvents"
        /\ Commit(Drain(syncEventsWithPaths(
                [Cur EXCEPT !.runs[r].input = local], r)))

\* The response to the token refresh of a run arrives.
RunRefreshed ==
    \E r \in 1..Len(runs) :
        /\ runs[r].pc = "refresh"
        /\ \E o \in RunOutcomes(Cur, r, 0) : Commit(Drain(runResponse(Cur, r, 0, o)))

\* The response to the events.delete of an orphan arrives.
OrphanResponse ==
    \E r \in 1..Len(runs) :
        /\ runs[r].pc = "orphan"
        /\ \E j \in 1..Len(runs[r].batch) :
              /\ runs[r].batch[j].st = "run"
              /\ \E o \in RunOutcomes(Cur, r, j) :
                    Commit(Drain(runResponse(Cur, r, j, o)))

\* The REQUEST_DELAY_MS timer of the j-th element of a batch fires; the timers
\* of a batch were set in index order with the same delay.
ItemTimer ==
    \E r \in 1..Len(runs) :
        /\ runs[r].pc \in {"pending", "sync", "orphan"}
        /\ \E j \in 1..Len(runs[r].batch) :
              /\ runs[r].batch[j].st = "delay"
              /\ \A x \in 1..(j - 1) : runs[r].batch[x].st # "delay"
              /\ Commit(Drain(startItem(Cur, r, j)))

\* The BATCH_DELAY_MS timer between two batches fires.
BatchTimer ==
    \E r \in 1..Len(runs) :
        /\ runs[r].pc \in {"pendingDelay", "syncDelay", "orphanDelay"}
        /\ Commit(Drain(nextBatch(Cur, r)))

\* The user changes a setting while no run is in flight.
SaveSettings ==
    /\ \A r \in 1..Len(runs) : RunOver(runs[r])
    /\ sched.nextTimer <= MaxTimers
    /\ Commit(Drain(saveSettings(Cur)))

\* getEvents() of another calendar resolves with no events: its run has no
\* pending deletion, no event and no orphan, and returns.
OtherGetEvents ==
    \E r \in 1..Len(runs) :
        /\ runs[r].cal # 1
        /\ runs[r].pc = "getEvents"
        /\ Commit(Drain([Cur EXCEPT !.runs[r].pc = "done"]))

\* A syncAll() may add a run for every registered calendar.
Room == Len(runs) + Len(sched.googleCalendars) <= MaxRuns

\* The host calls start(), stop(), setInterval(minutes) and syncAll() of the
\* scheduler, and an interval timer of the window fires.
SchedStart ==
    /\ Room
    /\ sched.nextTimer <= MaxTimers
    /\ Commit(Drain(start(Cur)))

SchedStop == Commit(Drain(stop(Cur)))

SetIntervalTo(minutes) ==
    /\ Room
    /\ sched.nextTimer <= MaxTimers
    /\ Commit(Drain(setInterval(Cur, minutes)))

SchedSetInterval == \E minutes \in world.minutes : SetIntervalTo(minutes)

ManualSyncAll ==
    /\ Room
    /\ Commit(Drain(syncAll(Cur)))

TimerTick ==
    /\ Room
    /\ sched.timers # {}
    /\ Commit(Drain(syncAll(Cur)))

----------------------------------------------------------------------------
(* Scenario: syncEvent calls on one engine, in sequence or overlapping.     *)
(* One local event in file p, known with and without its explicit id x;     *)
(* the mapping is empty, or the event was synced before under x; the token  *)
(* is fresh or due for a refresh.                                           *)

KeyP == <<"p">>
KeyX == <<"x">>

Stored(title, date, keys) ==
    [live |-> TRUE, summary |-> title,
     start |-> [kind |-> "date", v |-> date],
     end |-> [kind |-> "date", v |-> date + 1], by |-> keys]

SyncWorld ==
    [items |-> {Item(AllDay("T1", 1, NoKey), KeyP), Item(AllDay("T1", 1, KeyX), KeyP)},
     delKeys |-> {}, codes |-> {500}, victims |-> {}, syncEnabled |-> TRUE]

InitSync ==
    /\ world = SyncWorld
    /\ \E old \in {"none", "T0", "T1"} :
          /\ remote = IF old = "none" THEN <<>> ELSE <<Stored(old, 1, {KeyX})>>
          /\ syncState = [lastSyncTime |-> 0,
                          eventMapping |-> IF old = "none" THEN <<>>
                                           ELSE <<<<KeyX, 1>>>>,
                          pendingDeletions |-> <<>>]
    /\ syncingEvents = EmptyMap
    /\ credentials \in {[access_token |-> 1, refresh_token |-> TRUE,
                         expiry_date |-> e] : e \in {0, 30000}}
    /\ calls = <<>>
    /\ dels = <<>>
    /\ runs = <<>>
    /\ sched = NewScheduler
    /\ local = <<>>
    /\ now = 0
    /\ faultsLeft = MaxFaults
    /\ settings = Persisted(syncState, credentials)

NextSync == HostSyncEvent \/ CallResponse

SpecSync == InitSync /\ [][NextSync]_vars

----------------------------------------------------------------------------
(* Scenario: reconciliation runs one after the other on one engine, and     *)
(* deleteEvent calls of the host between them.  The note p holds the event  *)
(* T1 or is gone; the note d is gone.  Both were synced before; the record  *)
(* of d is still on the remote calendar or was removed there; the deletion  *)
(* of d is pending or not; the token is fresh or due for a refresh.         *)

KeyD == <<"d">>

RunWorld ==
    [items |-> {}, delKeys |-> {KeyD}, codes |-> {500, 401}, victims |-> {},
     syncEnabled |-> TRUE]

InitRun ==
    /\ world = RunWorld
    /\ local \in {<<>>, <<Item(AllDay("T1", 1, NoKey), KeyP)>>}
    /\ \E there \in BOOLEAN :
          remote = <<Stored("T1", 1, {KeyP}),
                     [Stored("T2", 2, {KeyD}) EXCEPT !.live = there]>>
    /\ \E pending \in {<<>>, <<KeyD>>} :
          syncState = [lastSyncTime |-> 0,
                       eventMapping |-> <<<<KeyP, 1>>, <<KeyD, 2>>>>,
                       pendingDeletions |-> pending]
    /\ syncingEvents = EmptyMap
    /\ credentials \in {[access_token |-> 1, refresh_token |-> TRUE,
                         expiry_date |-> e] : e \in {0, 30000}}
    /\ calls = <<>>
    /\ dels = <<>>
    /\ runs = <<>>
    /\ sched = NewScheduler
    /\ now = 0
    /\ faultsLeft = RunFaults
    /\ settings = Persisted(syncState, credentials)

NextRun ==
    \/ HostSyncAll
    \/ GetEvents
    \/ RunRefreshed
    \/ ItemTimer
    \/ OrphanResponse
    \/ CallResponse
    \/ DelResponse
    \/ HostDeleteEvent

SpecRun == InitRun /\ [][NextRun]_vars

----------------------------------------------------------------------------
(* Scenario: runs and syncEvent calls, one after the other, on an engine    *)
(* that has synced nothing yet.  The local calendar holds two events: the   *)
(* single event T1 of day 1 in note p and, before or after it, a recurring  *)
(* event (T1 from day 1 or T2 from day 2) in note r or a second single      *)
(* event T1 of day 1 in note q.                                             *)

KeyQ == <<"q">>
KeyR == <<"r">>

MixedLocals ==
    LET S1 == Item(AllDay("T1", 1, NoKey), KeyP)
        S2 == Item(AllDay("T1", 1, NoKey), KeyQ)
        R1 == Item(Recurring("T1", 1, NoKey), KeyR)
        R2 == Item(Recurring("T2", 2, NoKey), KeyR)
    IN  {<<S1, R1>>, <<R1, S1>>, <<S1, R2>>, <<R2, S1>>, <<S1, S2>>}

InitMixed ==
    /\ local \in MixedLocals
    /\ world = [items |-> {local[i] : i \in 1..Len(local)}, delKeys |-> {},
                codes |-> {500}, victims |-> {}, syncEnabled |-> TRUE]
    /\ remote = <<>>
    /\ syncState = [lastSyncTime |-> 0, eventMapping |-> <<>>,
                    pendingDeletions |-> <<>>]
    /\ syncingEvents = EmptyMap
    /\ credentials = [access_token |-> 1, refresh_token |-> TRUE,
                      expiry_date |-> 0]
    /\ calls = <<>>
    /\ dels = <<>>
    /\ runs = <<>>
    /\ sched = NewScheduler
    /\ now = 0
    /\ faultsLeft = MaxFaults
    /\ settings = Persisted(syncState, credentials)

NextMixed ==
    \/ HostSyncAll
    \/ GetEvents
    \/ ItemTimer
    \/ CallResponse
    \/ HostSyncEventAlone

SpecMixed == InitMixed /\ [][NextMixed]_vars

----------------------------------------------------------------------------
(* Scenario: runs of a calendar that has synced nothing yet, and edits of   *)
(* its one event between them.  The event T1 of day 1 in note p has an id   *)
(* of its own or none; an edit gives it the title T2 or leaves the title.   *)

InitModify ==
    /\ world = [items |-> {}, delKeys |-> {}, codes |-> {500}, victims |-> {},
                syncEnabled |-> TRUE, titles |-> {"T1", "T2"}]
    /\ local \in {<<Item(AllDay("T1", 1, id), KeyP)>> : id \in {NoKey, KeyX}}
    /\ remote = <<>>
    /\ syncState = [lastSyncTime |-> 0, eventMapping |-> <<>>,
                    pendingDeletions |-> <<>>]
    /\ syncingEvents = EmptyMap
    /\ credentials = [access_token |-> 1, refresh_token |-> TRUE,
                      expiry_date |-> 0]
    /\ calls = <<>>
    /\ dels = <<>>
    /\ runs = <<>>
    /\ sched = NewScheduler
    /\ now = 0
    /\ faultsLeft = MaxFaults
    /\ settings = Persisted(syncState, credentials)

NextModify ==
    \/ HostSyncAll
    \/ GetEvents
    \/ CallResponse
    \/ HostModifyEvent

SpecModify == InitModify /\ [][NextModify]_vars

----------------------------------------------------------------------------
(* Scenario: syncEvent called at any time for the events of two notes with  *)
(* the same title and day, one of them with or without an id that may be    *)
(* mapped.                                                                  *)

RaceWorld ==
    [items |-> {Item(AllDay("T1", 1, NoKey), <<"p">>),
                Item(AllDay("T1", 1, <<"x">>), <<"p">>),
                Item(AllDay("T1", 1, NoKey), <<"q">>)},
     delKeys |-> {}, codes |-> {500}, victims |-> {}, syncEnabled |-> TRUE]

InitRace ==
    /\ world = RaceWorld
    /\ \E old \in BOOLEAN :
          /\ remote = IF old
                      THEN <<[live |-> TRUE, summary |-> "T0",
                              start |-> [kind |-> "date", v |-> 1],
                              end |-> [kind |-> "date", v |-> 2],
                              by |-> {<<"x">>}]>>
                      ELSE <<>>
          /\ syncState = [lastSyncTime |-> 0,
                          eventMapping |-> IF old THEN <<<<<<"x">>, 1>>>> ELSE <<>>,
                          pendingDeletions |-> <<>>]
    /\ syncingEvents = EmptyMap
    /\ credentials = [access_token |-> 1, refresh_token |-> TRUE,
                      expiry_date |-> 0]
    /\ calls = <<>>
    /\ dels = <<>>
    /\ runs = <<>>
    /\ sched = NewScheduler
    /\ local = <<>>
    /\ now = 0
    /\ faultsLeft = MaxFaults
    /\ settings = Persisted(syncState, credentials)

NextRace == HostSyncEvent \/ CallResponse

SpecRace == InitRace /\ [][NextRace]_vars

----------------------------------------------------------------------------
(* Scenario: the conversion of one single event with ISO dates.  All-day    *)
(* events without endDate on every date of the years, and with an endDate   *)
(* on the last days of the months; timed events on the last days of the     *)
(* months at every minute of the day without endTime, and some with one.    *)

ConvertDates ==
    {<<y, m, d>> : y \in FirstYear..LastYear, m \in 1..12, d \in 1..31} \cap
    {iso \in (FirstYear..LastYear) \X (1..12) \X (1..31) :
        iso[3] <= daysInMonth(iso[1], iso[2])}

MonthEnds == {iso \in ConvertDates : iso[3] = daysInMonth(iso[1], iso[2])}

Single(allDay, date, endDate, startTime, endTime) ==
    [type |-> "single", title |-> "T1", allDay |-> allDay, date |-> date,
     endDate |-> endDate, startTime |-> startTime, endTime |-> endTime,
     startDate |-> NoDate, id |-> NoKey]

ConvertEvents ==
    {Single(TRUE, date, NoDate, NoTime, NoTime) : date \in ConvertDates} \cup
    {Single(TRUE, ds[1], ds[2], NoTime, NoTime) : ds \in MonthEnds \X MonthEnds} \cup
    {Single(FALSE, dt[1], NoDate, dt[2], NoTime) :
        dt \in MonthEnds \X ((0..23) \X (0..59))} \cup
    {Single(FALSE, dt[1], NoDate, dt[2], <<23, 59>>) :
        dt \in MonthEnds \X {<<9, 0>>, <<23, 30>>}}

InitConvert ==
    /\ world = [items |-> {}, delKeys |-> {}, codes |-> {500}, victims |-> {},
                syncEnabled |-> TRUE]
    /\ local \in {<<Item(ev, NoKey)>> : ev \in ConvertEvents}
    /\ remote = <<>>
    /\ syncState = [lastSyncTime |-> 0, eventMapping |-> <<>>,
                    pendingDeletions |-> <<>>]
    /\ syncingEvents = EmptyMap
    /\ credentials = [access_token |-> 1, refresh_token |-> TRUE,
                      expiry_date |-> 0]
    /\ calls = <<>>
    /\ dels = <<>>
    /\ runs = <<>>
    /\ sched = NewScheduler
    /\ now = 0
    /\ faultsLeft = 0
    /\ settings = Persisted(syncState, credentials)

NextConvert == ConvertEvent

SpecConvert == InitConvert /\ [][NextConvert]_vars

----------------------------------------------------------------------------
(* Scenario: syncEvent, deleteEvent and syncEventsWithPaths called one      *)
(* after the other on an engine that holds no access token, or a token      *)
(* with no expiry, or one that expires a millisecond less than, exactly, or *)
(* a millisecond more than 60 seconds from now.  The note p was synced      *)
(* before; the note q was not; the note r holds a recurring event.          *)

AuthNow == 100000

AuthWorld ==
    [items |-> {Item(AllDay("T1", 1, NoKey), KeyP),
                Item(Recurring("T1", 1, NoKey), KeyR)},
     delKeys |-> {KeyP, KeyQ}, codes |-> {500}, victims |-> {},
     syncEnabled |-> TRUE]

InitAuth ==
    /\ world = AuthWorld
    /\ local = <<Item(AllDay("T1", 1, NoKey), KeyP)>>
    /\ remote = <<Stored("T1", 1, {KeyP})>>
    /\ syncState = [lastSyncTime |-> 50000, eventMapping |-> <<<<KeyP, 1>>>>,
                    pendingDeletions |-> <<>>]
    /\ syncingEvents = EmptyMap
    /\ credentials \in
          {NoCredentials, [NoCredentials EXCEPT !.refresh_token = TRUE]} \cup
          {[access_token |-> 1, refresh_token |-> TRUE, expiry_date |-> e] :
              e \in {0, AuthNow + 59999, AuthNow + 60000, AuthNow + 60001}}
    /\ calls = <<>>
    /\ dels = <<>>
    /\ runs = <<>>
    /\ sched = NewScheduler
    /\ now = AuthNow
    /\ faultsLeft = MaxFaults
    /\ settings = Persisted(syncState, credentials)

NextAuth ==
    \/ HostSyncEventAlone
    \/ CallResponse
    \/ HostDeleteEvent
    \/ DelResponse
    \/ HostSyncEventsWithPaths
    \/ RunRefreshed

SpecAuth == InitAuth /\ [][NextAuth]_vars

----------------------------------------------------------------------------
(* Claims about syncEvent, under SpecSync *)

Calls == 1..Len(calls)

\* Call b was made while call a was still running.
Overlap(a, b) == a < b /\ a \notin calls[b].before

\* Call b was made after a had settled and ran alone: no other call was running
\* when b was made, and none was made before b settled.
Successive(a, b) ==
    /\ a \in calls[b].before
    /\ \A d \in Calls \ {b} : IF d < b THEN d \in calls[b].before
                              ELSE b \in calls[d].before

Quiescent == Idle

\* The live remote records the engine created for key k or recorded under it.
RecordsOf(k) == {id \in 1..Len(remote) : remote[id].live /\ k \in remote[id].by}

EntriesOf(k) ==
    {i \in 1..Len(syncState.eventMapping) : syncState.eventMapping[i][1] = k}

AllKeys == {it.filePath : it \in world.items} \cup {it.event.id : it \in world.items}

\* Two overlapping calls a, b for one key, both returned, made while the mapping
\* had no entry for the key, whose probe ran and found no match.
RacedUnmapped(a, b) ==
    /\ Overlap(a, b)
    /\ calls[a].pc = "done" /\ calls[b].pc = "done"
    /\ calls[a].key # NoKey /\ calls[a].key = calls[b].key
    /\ ~calls[a].mappedAtStart /\ ~calls[b].mappedAtStart
    /\ calls[a].lst + calls[b].lst > 0
    /\ ~calls[a].matched /\ ~calls[b].matched

OneInsertSameId(a, b) ==
    /\ calls[a].ins + calls[b].ins = 1
    /\ calls[a].res = calls[b].res
    /\ calls[a].res # 0

\* C1 as stated: two overlapping syncEvent calls for one key, made while the
\* mapping has no entry for the key and whose probe finds no match, issue exactly
\* one insert between them and return the same record id.
C1_Original ==
    \A a, b \in Calls : RacedUnmapped(a, b) => OneInsertSameId(a, b)

\* No call for the key of a that runs while a runs brings an explicit id that
\* the mapping has an entry for.
NoMigration(a) ==
    \A d \in Calls :
        (/\ d = a \/ Overlap(a, d) \/ Overlap(d, a)
         /\ (IF calls[d].filePath # NoKey THEN calls[d].filePath
             ELSE calls[d].ev.id) = calls[a].key)
        => ~calls[d].idMappedAtStart

\* C1 amended: the same, when no call running at that time brings an explicit id
\* that has a mapping entry (such an entry is copied to the key before the
\* in-flight check, and the calls then return the copied id without any insert).
C1_OneInsertUnderRace ==
    \A a, b \in Calls :
        (RacedUnmapped(a, b) /\ NoMigration(a)) => OneInsertSameId(a, b)

\* C1 witness: a call that awaited another call's promise and returned with the
\* id of the record that call inserted.
C1_Witness ==
    \E a, b \in Calls :
        /\ RacedUnmapped(a, b) /\ NoMigration(a)
        /\ calls[b].waitOn = a /\ calls[a].ins = 1
        /\ calls[b].res = calls[a].created

\* C2: when nothing is in flight, every key has at most one mapping entry and at
\* most one live remote record created for it or recorded under it.
C2_OneRecordPerKey ==
    Quiescent =>
        \A k \in AllKeys \ {NoKey} :
            /\ Cardinality(EntriesOf(k)) <= 1
            /\ Cardinality(RecordsOf(k)) <= 1

\* C3: of two successive successful syncEvent calls with the same event and key,
\* the second returns the id the first returned, and issues exactly one update,
\* against that id, and no insert.
C3_SecondCallUpdates ==
    \A a, b \in Calls :
        (/\ Successive(a, b)
         /\ calls[a].pc = "done" /\ calls[b].pc = "done"
         /\ calls[a].res # 0
         /\ calls[a].ev = calls[b].ev /\ calls[a].filePath = calls[b].filePath)
        => /\ calls[b].res = calls[a].res
           /\ calls[b].ins = 0
           /\ calls[b].upd = 1
           /\ calls[b].updTarget = calls[a].res

\* C3 witness: the first call inserted, the second updated the inserted record.
C3_Witness ==
    \E a, b \in Calls :
        /\ Successive(a, b) /\ calls[a].pc = "done" /\ calls[b].pc = "done"
        /\ calls[a].ev = calls[b].ev /\ calls[a].filePath = calls[b].filePath
        /\ calls[a].ins = 1 /\ calls[a].res = calls[a].created
        /\ calls[b].upd = 1 /\ calls[b].res = calls[a].res

\* A settled call made with a file path and a different explicit id while the
\* mapping had an entry for the id and none for the path
MigratingCall(c) ==
    /\ Settled(calls[c])
    /\ calls[c].filePath # NoKey /\ calls[c].ev.id # NoKey
    /\ calls[c].filePath # calls[c].ev.id
    /\ Lookup(calls[c].st0.eventMapping, calls[c].ev.id) # 0
    /\ Lookup(calls[c].st0.eventMapping, calls[c].filePath) = 0

Migrated(c) ==
    LET id == Lookup(calls[c].st0.eventMapping, calls[c].ev.id)
    IN  /\ Lookup(calls[c].st1.eventMapping, calls[c].filePath) = id
        /\ Lookup(calls[c].st1.eventMapping, calls[c].ev.id) = id
        /\ calls[c].ins = 0

\* No other call was running when c was made, and none was made before c
\* settled.
Alone(c) ==
    \A a \in Calls \ {c} : IF a < c THEN a \in calls[c].before
                           ELSE c \in calls[a].before

----------------------------------------------------------------------------
(* Scenario: runs over more events than one batch holds.  Every note holds  *)
(* one event, all were synced before and their records are on the remote    *)
(* calendar; all requests made for one of the notes fail.  Three older      *)
(* notes are gone and still mapped; the deletion of two of them is pending. *)

Note(n) == [j \in 1..n |-> "n"]

Old(n) == [j \in 1..n |-> "o"]

OldNotes == 3

BatchLocal == [n \in 1..BatchEvents |-> Item(AllDay("E", n, NoKey), Note(n))]

InitBatch ==
    /\ \E v \in 1..BatchEvents :
          world = [items |-> {}, delKeys |-> {}, codes |-> {500},
                   victims |-> {Note(v)}, syncEnabled |-> TRUE]
    /\ local = BatchLocal
    /\ remote = [n \in 1..BatchEvents |-> Stored("E", n, {Note(n)})] \o
                [n \in 1..OldNotes |-> Stored("O", BatchEvents + n, {Old(n)})]
    /\ syncState = [lastSyncTime |-> 0,
                    eventMapping |->
                        [n \in 1..BatchEvents |-> <<Note(n), n>>] \o
                        [n \in 1..OldNotes |-> <<Old(n), BatchEvents + n>>],
                    pendingDeletions |-> <<Old(1), Old(2)>>]
    /\ syncingEvents = EmptyMap
    /\ credentials = [access_token |-> 1, refresh_token |-> TRUE,
                      expiry_date |-> 0]
    /\ calls = <<>>
    /\ dels = <<>>
    /\ runs = <<>>
    /\ sched = NewScheduler
    /\ now = 0
    /\ faultsLeft = 0
    /\ settings = Persisted(syncState, credentials)

NextBatch ==
    \/ HostSyncAll
    \/ GetEvents
    \/ ItemTimer
    \/ BatchTimer
    \/ CallResponse
    \/ DelResponse
    \/ OrphanResponse

SpecBatch == InitBatch /\ [][NextBatch]_vars

----------------------------------------------------------------------------
(* Scenario: the runs of SpecRun, while the host calls syncEvent for the    *)
(* local event when a syncEvent is in flight.  Every response and every     *)
(* timer that is awaited comes in the end.                                  *)

InitLive ==
    /\ world = [RunWorld EXCEPT !.items = {Item(AllDay("T1", 1, NoKey), KeyP)}]
    /\ local \in {<<>>, <<Item(AllDay("T1", 1, NoKey), KeyP)>>}
    /\ \E there \in BOOLEAN :
          remote = <<Stored("T1", 1, {KeyP}),
                     [Stored("T2", 2, {KeyD}) EXCEPT !.live = there]>>
    /\ syncState = [lastSyncTime |-> 0,
                    eventMapping |-> <<<<KeyP, 1>>, <<KeyD, 2>>>>,
                    pendingDeletions |-> <<KeyD>>]
    /\ syncingEvents = EmptyMap
    /\ credentials \in {[access_token |-> 1, refresh_token |-> TRUE,
                         expiry_date |-> e] : e \in {0, 30000}}
    /\ calls = <<>>
    /\ dels = <<>>
    /\ runs = <<>>
    /\ sched = NewScheduler
    /\ now = 0
    /\ faultsLeft = RunFaults
    /\ settings = Persisted(syncState, credentials)

\* The host calls syncEvent while an event is being synced.
HostSyncEventMeanwhile ==
    /\ syncingEvents # EmptyMap
    /\ HostSyncEvent

NextLive ==
    \/ HostSyncAll
    \/ HostSyncEventMeanwhile
    \/ GetEvents
    \/ RunRefreshed
    \/ ItemTimer
    \/ CallResponse
    \/ DelResponse
    \/ OrphanResponse

\* What is awaited: the guards of the actions below, ENABLED <<A>>_vars of
\* each written out.
AwaitsGetEvents ==
    \E r \in 1..Len(runs) : runs[r].cal = 1 /\ runs[r].pc = "getEvents"

AwaitsRefresh == \E r \in 1..Len(runs) : runs[r].pc = "refresh"

AwaitsItemTimer ==
    \E r \in 1..Len(runs) :
        /\ runs[r].pc \in {"pending", "sync", "orphan"}
        /\ \E j \in 1..Len(runs[r].batch) : runs[r].batch[j].st = "delay"

AwaitsCallResponse == \E c \in 1..Len(calls) : calls[c].pc \in RemotePcs

AwaitsDelResponse ==
    \E d \in 1..Len(dels) : dels[d].pc \in {"refresh", "delete", "fuzzyDelete"}

AwaitsOrphanResponse ==
    \E r \in 1..Len(runs) :
        /\ runs[r].pc = "orphan"
        /\ \E j \in 1..Len(runs[r].batch) : runs[r].batch[j].st = "run"

\* Weak fairness of the local read, of each response and of the timer: what
\* is awaited for ever comes.
LiveFairness ==
    /\ []<>~AwaitsGetEvents \/ []<><<GetEvents>>_vars
    /\ []<>~AwaitsRefresh \/ []<><<RunRefreshed>>_vars
    /\ []<>~AwaitsItemTimer \/ []<><<ItemTimer>>_vars
    /\ []<>~AwaitsCallResponse \/ []<><<CallResponse>>_vars
    /\ []<>~AwaitsDelResponse \/ []<><<DelResponse>>_vars
    /\ []<>~AwaitsOrphanResponse \/ []<><<OrphanResponse>>_vars

SpecLive == InitLive /\ [][NextLive]_vars /\ LiveFairness

----------------------------------------------------------------------------
(* Scenario: the scheduler drives the runs of one or two calendars that     *)
(* have nothing to sync; each is enabled or not, the second holds a token   *)
(* or not; the token of calendar 1 is fresh or due for a refresh.           *)

InitSched ==
    /\ \E e1, e2, a2 \in BOOLEAN :
          world = [items |-> {}, delKeys |-> {}, codes |-> {500}, victims |-> {},
                   syncEnabled |-> e1, minutes |-> {DefaultMinutes, 10},
                   others |-> [cal \in {2} |->
                                 [syncEnabled |-> e2, authenticated |-> a2]]]
    /\ local = <<>>
    /\ remote = <<>>
    /\ syncState = [lastSyncTime |-> 0, eventMapping |-> <<>>,
                    pendingDeletions |-> <<>>]
    /\ syncingEvents = EmptyMap
    /\ credentials \in {[access_token |-> 1, refresh_token |-> TRUE,
                         expiry_date |-> e] : e \in {0, 30000}}
    /\ calls = <<>>
    /\ dels = <<>>
    /\ runs = <<>>
    /\ sched \in {NewScheduler, registerCalendar(NewScheduler, 2)}
    /\ now = 100000
    /\ faultsLeft = MaxFaults
    /\ settings = Persisted(syncState, credentials)

NextSched ==
    \/ OtherGetEvents
    \/ SaveSettings
    \/ SchedStart
    \/ SchedStop
    \/ SchedSetInterval
    \/ ManualSyncAll
    \/ TimerTick
    \/ GetEvents
    \/ RunRefreshed

SpecSched == InitSched /\ [][NextSched]_vars

----------------------------------------------------------------------------
(* Claims about reconciliation runs, under SpecRun *)

Runs == 1..Len(runs)
Dels == 1..Len(dels)

Restrict(m, L) == SelectSeq(m, LAMBDA e : e[1] \in L)

Answers(rn) == {rn.orphTodo[i] : i \in 1..Len(rn.orphTodo)}

AllDeletesSucceeded(rn) == \A e \in Answers(rn) : e.code = 200

RequestsFor(rn, k) == {i \in 1..Len(rn.log) : rn.log[i][1] = k}

\* C4: when a run has completed and every remote delete of deleteOrphanedEvents
\* succeeded, it requested exactly one delete for each key of the mapping M
\* that is not a current local key, against the id M gives it, none for a
\* current local key, and the mapping at the end is M restricted to the
\* current local keys.
C4_OrphansDeletedOnce ==
    \A r \in Runs :
        LET rn == runs[r]
        IN  rn.pc = "done" /\ AllDeletesSucceeded(rn) =>
              /\ \A k \in MapKeys(rn.mapO) \ rn.keys :
                    /\ Cardinality(RequestsFor(rn, k)) = 1
                    /\ \A i \in RequestsFor(rn, k) :
                          rn.log[i][2] = Lookup(rn.mapO, k)
              /\ \A k \in rn.keys : RequestsFor(rn, k) = {}
              /\ rn.mapEnd = Restrict(rn.mapO, rn.keys)

C4_Witness ==
    \E r \in Runs :
        /\ runs[r].pc = "done"
        /\ AllDeletesSucceeded(runs[r])
        /\ Len(runs[r].log) >= 1
        /\ MapKeys(runs[r].mapEnd) # {}

\* C5 as stated: after a run has completed, the mapping has no entry for a key
\* that is not a current local key.
C5_Original ==
    \A r \in Runs :
        runs[r].pc = "done" => MapKeys(runs[r].mapEnd) \subseteq runs[r].keys

KeptForRetry(rn) == {e.obsidianKey : e \in {x \in Answers(rn) : x.code \notin {200, 410}}}

\* C5: after a run has completed, the only entries of the mapping for keys
\* that are not current local keys are those whose remote delete was answered
\* in that run with an error other than 410.
C5_OnlyFailedOrphansRemain ==
    \A r \in Runs :
        runs[r].pc = "done" =>
            MapKeys(runs[r].mapEnd) \ runs[r].keys \subseteq KeptForRetry(runs[r])

C5_Witness ==
    \E r \in Runs :
        /\ runs[r].pc = "done"
        /\ \E e \in Answers(runs[r]) :
              e.code = 500 /\ Lookup(runs[r].mapEnd, e.obsidianKey) # 0
        /\ \E e \in Answers(runs[r]) :
              e.code = 200 /\ Lookup(runs[r].mapEnd, e.obsidianKey) = 0

AlreadyGone == {404, 410}

\* C6: in every deletion path a remote answer of 404 or 410 counts as success:
\* deleteEvent (called by the host or by the pending retry) returns without an
\* error with its key neither mapped nor pending, and deleteOrphanedEvents
\* leaves no mapping entry for the key.
C6_GoneIsSuccess ==
    /\ \A d \in Dels :
          dels[d].pc \in {"done", "failed"} /\ dels[d].code \in AlreadyGone =>
              /\ dels[d].pc = "done"
              /\ ~dels[d].mappedAfter
              /\ ~dels[d].pendingAfter
    /\ \A r \in Runs :
          runs[r].pc = "done" =>
              \A e \in Answers(runs[r]) :
                  e.code \in AlreadyGone => Lookup(runs[r].mapEnd, e.obsidianKey) = 0

\* A deleteEvent call of the pending retry of run r whose remote delete was
\* answered with an error that is neither already-gone nor 401
Transient(d, r) ==
    /\ dels[d].run = r
    /\ dels[d].pc = "failed"
    /\ dels[d].req > 0
    /\ dels[d].code \notin AlreadyGone \cup {200, 401}

RetriedIn(d2, r, k) == dels[d2].run = r /\ dels[d2].key = k /\ dels[d2].req > 0

Forgotten(rn, k) == ~includes(rn.pendS, k) /\ Lookup(rn.mapS, k) = 0

\* C7 as stated: a key whose remote delete failed with a transient error in a
\* run is pending when that run returns; the next run requests a remote delete
\* for it again, and when that succeeds the key is neither pending nor mapped.
C7_Original ==
    \A r \in Runs : \A d \in Dels :
        Transient(d, r) /\ runs[r].pc = "done" =>
            /\ includes(runs[r].pendEnd, dels[d].key)
            /\ r + 1 \in Runs /\ runs[r + 1].pc = "done" =>
                  \E d2 \in Dels :
                      /\ RetriedIn(d2, r + 1, dels[d].key)
                      /\ dels[d2].code = 200 => Forgotten(runs[r + 1], dels[d].key)

\* C7: a key whose remote delete failed with a transient error in a run is
\* pending when that run returns; if it is still pending and still has a
\* mapping entry when the next run begins, that run requests a remote delete
\* for it again, and when that succeeds the key is neither pending nor mapped.
C7_RetriedWhileMapped ==
    \A r \in Runs : \A d \in Dels :
        Transient(d, r) /\ runs[r].pc = "done" =>
            /\ includes(runs[r].pendEnd, dels[d].key)
            /\ /\ r + 1 \in Runs
               /\ runs[r + 1].pc = "done"
               /\ includes(runs[r + 1].pendTodo, dels[d].key)
               /\ Lookup(runs[r + 1].mapP, dels[d].key) # 0
               => \E d2 \in Dels :
                      /\ RetriedIn(d2, r + 1, dels[d].key)
                      /\ dels[d2].code = 200 => Forgotten(runs[r + 1], dels[d].key)

C7_Witness ==
    \E r \in Runs : \E d \in Dels : \E d2 \in Dels :
        /\ Transient(d, r)
        /\ r + 1 \in Runs
        /\ runs[r + 1].pc = "done"
        /\ RetriedIn(d2, r + 1, dels[d].key)
        /\ dels[d2].code = 200

\* C9: once a request of a run was answered 401, the run requests no further
\* insert, update or delete.
C9_NoRequestAfter401 == \A r \in Runs : ~runs[r].after401

----------------------------------------------------------------------------
(* Claims about the batches of a run, under SpecBatch *)

Failing(rn) ==
    {i \in 1..Len(rn.syncTodo) : keyOf(rn.syncTodo[i]) \in world.victims}

DistinctKeys(rn) ==
    \A i, j \in 1..Len(rn.syncTodo) :
        i # j => keyOf(rn.syncTodo[i]) # keyOf(rn.syncTodo[j])

Processed(r, i) ==
    \E c \in Calls : calls[c].run = r /\ calls[c].ev = runs[r].syncTodo[i].event
                     /\ Settled(calls[c])

\* C8: a run over N deduplicated single events with distinct keys, of which
\* exactly one has all its remote calls fail, is never aborted, and when it
\* returns it reports failed = 1 and synced = N - 1 and syncEvent has been
\* called and has settled for every one of the N events.
C8_OneFailureIsCounted ==
    \A r \in Runs :
        LET rn == runs[r]
        IN  DistinctKeys(rn) /\ Cardinality(Failing(rn)) = 1 =>
              /\ rn.pc # "failed"
              /\ rn.pc = "done" =>
                    /\ rn.results.failed = 1
                    /\ rn.results.synced = Len(rn.syncTodo) - 1
                    /\ \A i \in 1..Len(rn.syncTodo) : Processed(r, i)

C8_Witness ==
    \E r \in Runs :
        /\ runs[r].pc = "done"
        /\ Len(runs[r].syncTodo) > BATCH_SIZE
        /\ Failing(runs[r]) = {1}
        /\ runs[r].results.failed = 1

CallsOf(r) == {c \in Calls : calls[c].run = r}
DelsOf(r) == {d \in Dels : dels[d].run = r}

\* C11: within a run, when the first syncEvent of the run is called every
\* pending deletion has been tried and its deleteEvent has settled; and when
\* deleteOrphanedEvents begins, syncEvent has been called and has settled for
\* every event of the run.
C11_PhasesInOrder ==
    \A r \in Runs :
        /\ CallsOf(r) # {} =>
              /\ Cardinality(DelsOf(r)) = Len(runs[r].pendTodo)
              /\ \A d \in DelsOf(r) : dels[d].pc \in {"done", "failed"}
        /\ runs[r].pc \in {"orphan", "orphanDelay", "done"} =>
              /\ Cardinality(CallsOf(r)) = Len(runs[r].syncTodo)
              /\ \A c \in CallsOf(r) : Settled(calls[c])

C11_Witness ==
    \E r \in Runs :
        /\ runs[r].pc = "done"
        /\ \E d \in DelsOf(r) : dels[d].req > 0
        /\ \E c \in CallsOf(r) : calls[c].upd > 0
        /\ runs[r].log # <<>>

\* The operations of run r that have started and have not settled: its
\* syncEvent calls, its deleteEvent calls and the deletes of its orphans
OpsInFlight(r) ==
    {<<"sync", c>> : c \in {x \in CallsOf(r) : ~Settled(calls[x])}} \cup
    {<<"delete", d>> : d \in {x \in DelsOf(r) : dels[x].pc \notin {"done", "failed"}}} \cup
    {<<"orphan", j>> : j \in {x \in 1..Len(runs[r].batch) :
                                 runs[r].pc = "orphan" /\ runs[r].batch[x].st = "run"}}

\* The batch of the syncEvent call c of run r, by the place of its event in
\* the scheduled events
BatchOfCall(r, c) ==
    ((CHOOSE i \in 1..Len(runs[r].syncTodo) :
          runs[r].syncTodo[i].event = calls[c].ev) - 1) \div BATCH_SIZE

\* C25: a run has at most BATCH_SIZE operations in flight, and when an
\* operation of a batch has started every operation of the batches before it
\* has settled.
C25_BatchesBounded ==
    \A r \in Runs :
        /\ Cardinality(OpsInFlight(r)) <= BATCH_SIZE
        /\ \A c1, c2 \in CallsOf(r) :
              BatchOfCall(r, c1) < BatchOfCall(r, c2) => Settled(calls[c1])
        /\ \A c2 \in CallsOf(r) :
              \A i \in 1..Len(runs[r].syncTodo) :
                  (i - 1) \div BATCH_SIZE < BatchOfCall(r, c2) => Processed(r, i)

C25_Witness ==
    \E r \in Runs : \E c \in CallsOf(r) :
        /\ BatchOfCall(r, c) = 1
        /\ ~Settled(calls[c])
        /\ \E c1 \in CallsOf(r) : BatchOfCall(r, c1) = 0 /\ calls[c1].pc = "failed"

----------------------------------------------------------------------------
(* Claims about events of all kinds, under SpecMixed *)

NotSingle(list) == {i \in 1..Len(list) : list[i].event.type # "single"}

\* A settled syncEvent call for an event that is not single, on an engine
\* that holds an access token, returned null, issued no remote request and
\* left the mapping as it was.
NullWithoutRequest ==
    \A c \in Calls :
        Settled(calls[c]) /\ calls[c].ev.type # "single"
        /\ calls[c].err # NotAuthenticated =>
            /\ calls[c].pc = "done" /\ calls[c].res = 0
            /\ calls[c].ins + calls[c].upd + calls[c].lst + calls[c].del = 0
            /\ calls[c].st1.eventMapping = calls[c].st0.eventMapping

----------------------------------------------------------------------------
(* Claims about the scheduler, under SpecSched *)

InFlight == {r \in Runs : ~RunOver(runs[r])}

\* C10: no two reconciliation runs of the calendar are in flight at the same
\* time.
C10_OneRunAtATime ==
    \A cal \in {runs[r].cal : r \in Runs} :
        Cardinality({r \in InFlight : runs[r].cal = cal}) <= 1

Armed == sched.timers

RunningIffArmed ==
    /\ sched.isRunning <=> Armed # {}
    /\ Cardinality(Armed) <= 1
    /\ \A t \in Armed : t.id = sched.intervalId

\* The registered calendars that are ready, and the runs a step has added
ReadyCalendars ==
    {cal \in {sched.googleCalendars[i] : i \in 1..Len(sched.googleCalendars)} :
        calIsSyncReady(Cur, cal)}

Added == (Len(runs) + 1)..Len(runs')

OneRunEach ==
    /\ Len(runs') = Len(runs) + Cardinality(ReadyCalendars)
    /\ \A r \in Runs : runs'[r] = runs[r]
    /\ {runs'[r].cal : r \in Added} = ReadyCalendars
    /\ \A r \in Added : runs'[r].pc # "start" /\ runs'[r].err # NotReady

StartStep ==
    IF ~sched.isRunning
    THEN /\ sched'.isRunning
         /\ Cardinality(sched'.timers) = 1
         /\ OneRunEach
    ELSE UNCHANGED vars

StopStep ==
    /\ ~sched'.isRunning
    /\ sched'.timers = {}
    /\ runs' = runs /\ calls' = calls /\ dels' = dels

\* C14: the scheduler starts stopped; start() when stopped makes it running,
\* starts one run and arms one timer; start() when running changes nothing;
\* stop() makes it stopped and cancels the timer without touching the runs in
\* flight; a timer fires only while the scheduler is running; and in every
\* state the scheduler is running iff a timer is armed, with at most one
\* timer armed.
C14_StartStop ==
    /\ ~sched.isRunning /\ Armed = {}
    /\ []RunningIffArmed
    /\ [][/\ SchedStart => StartStep
          /\ SchedStop => StopStep
          /\ TimerTick => sched.isRunning]_vars

C14_Witness ==
    /\ ~sched.isRunning
    /\ Armed = {}
    /\ sched.nextTimer > 1
    /\ InFlight # {}

\* C15: setInterval(minutes) on a running scheduler leaves it running with
\* exactly one timer armed, a new one with the new period; on a stopped
\* scheduler it records the period, leaves the scheduler stopped and starts
\* no run.
C15_SetInterval ==
    [][\A minutes \in world.minutes :
          SetIntervalTo(minutes) =>
              /\ sched'.intervalMinutes = minutes
              /\ IF sched.isRunning
                 THEN /\ sched'.isRunning
                      /\ \E t \in sched'.timers :
                            /\ sched'.timers = {t}
                            /\ t.ms = minutes * 60 * 1000
                            /\ t.id = sched'.intervalId
                            /\ \A old \in sched.timers : old.id # t.id
                 ELSE /\ ~sched'.isRunning
                      /\ sched'.timers = {}
                      /\ runs' = runs]_vars

C15_Witness ==
    /\ sched.isRunning
    /\ \E t \in Armed : t.id > 1 /\ t.ms = 10 * 60 * 1000
    /\ sched.intervalMinutes = 10

\* C16: a syncAll, called by the host or by the timer, starts one run for each
\* registered calendar that is enabled and authenticated at that moment and
\* for no other, and leaves the earlier runs as they are; and a step in which
\* a run fails changes no other run.
C16_SyncsReadyCalendars ==
    [][/\ (ManualSyncAll \/ TimerTick) => OneRunEach
       /\ \A r \in Runs :
             (~RunOver(runs[r]) /\ runs'[r].pc = "failed") =>
                 \A q \in Runs \ {r} : runs'[q] = runs[q]]_vars

C16_Witness ==
    \E r, q \in Runs :
        /\ runs[r].cal = 1 /\ runs[r].pc = "failed"
        /\ runs[q].cal = 2 /\ runs[q].pc = "done"
        /\ q = r + 1
        /\ sched.nextTimer = 1

\* C17: once a run of the calendar has completed and no run is in flight, the
\* plugin data hold the sync state and the credentials the engine holds.
C17_PersistedAfterRun ==
    (InFlight = {} /\ \E r \in Runs : runs[r].cal = 1 /\ runs[r].pc = "done") =>
        settings = Persisted(syncState, credentials)

----------------------------------------------------------------------------
(* Claims about the credentials, under SpecAuth *)

\* The stored expiry is at most 60 seconds after now.
NearExpiry(cr) == cr.expiry_date # 0 /\ cr.expiry_date - now <= 60000

\* The operations that came to refreshTokenIfNeeded, each with the count of
\* refresh exchanges it issued and the credentials it was called with.
Ensured ==
    {[rfr |-> calls[c].rfr, cr0 |-> calls[c].cr0] :
        c \in {x \in Calls : calls[x].cr0.access_token # 0 /\
                              calls[x].ev.type = "single"}} \cup
    {[rfr |-> dels[d].rfr, cr0 |-> dels[d].cr0] :
        d \in {x \in Dels : dels[x].cr0.access_token # 0 /\ dels[x].target # 0}} \cup
    {[rfr |-> runs[r].rfr, cr0 |-> runs[r].cr0] :
        r \in {x \in Runs : runs[x].cr0.access_token # 0}}

AllOps ==
    {[rfr |-> calls[c].rfr, cr0 |-> calls[c].cr0] : c \in Calls} \cup
    {[rfr |-> dels[d].rfr, cr0 |-> dels[d].cr0] : d \in Dels} \cup
    {[rfr |-> runs[r].rfr, cr0 |-> runs[r].cr0] : r \in Runs}

\* C18: an operation that comes to refreshTokenIfNeeded issues a refresh
\* exchange exactly when the stored expiry is at most 60 seconds after now,
\* no operation issues one otherwise, and once a refresh has succeeded
\* getCredentials returns a token newer than the one the operation started
\* with, with the expiry the exchange gave.
C18_RefreshWhenDue ==
    /\ \A op \in Ensured : op.rfr > 0 <=> NearExpiry(op.cr0)
    /\ \A op \in AllOps \ Ensured : op.rfr = 0
    /\ \A op \in AllOps :
          op.rfr = 2 =>
              /\ getCredentials(Cur).accessToken > op.cr0.access_token
              /\ getCredentials(Cur).refreshToken = op.cr0.refresh_token
              /\ getCredentials(Cur).tokenExpiry = now + TokenLifetime

C18_Witness ==
    /\ \E c \in Calls : /\ calls[c].cr0.expiry_date = now + 60000
                         /\ calls[c].rfr = 2
                         /\ calls[c].pc = "done"
    /\ \E d \in Dels : /\ dels[d].cr0.access_token = 2
                        /\ dels[d].rfr = 0
                        /\ dels[d].req > 0

\* The requests a run has issued itself or through its calls
RunRequests(r) ==
    runs[r].rfr + Len(runs[r].log) + Cardinality(CallsOf(r)) + Cardinality(DelsOf(r))

\* C19: a syncEvent call, a deleteEvent call and a run made while the engine
\* holds no access token fail with the not-authenticated error, have issued
\* no request, and leave the sync state as it was when they were made.
C19_FailsFast ==
    /\ \A c \in Calls :
          calls[c].cr0.access_token = 0 =>
              /\ calls[c].pc = "failed" /\ calls[c].err = NotAuthenticated
              /\ calls[c].ins + calls[c].upd + calls[c].lst + calls[c].del
                    + calls[c].rfr = 0
              /\ calls[c].st1 = calls[c].st0
    /\ \A d \in Dels :
          dels[d].cr0.access_token = 0 =>
              /\ dels[d].pc = "failed" /\ dels[d].err = NotAuthenticated
              /\ dels[d].req + dels[d].rfr = 0
              /\ dels[d].st1 = dels[d].st0
    /\ \A r \in Runs :
          (runs[r].cr0.access_token = 0 /\ runs[r].pc \notin {"start", "getEvents"}
             /\ runs[r].err # NotReady) =>
              /\ runs[r].pc = "failed" /\ runs[r].err = NotAuthenticated
              /\ RunRequests(r) = 0
              /\ runs[r].st1 = runs[r].st0
    /\ (credentials.access_token = 0 /\ calls # <<>> /\ dels # <<>> /\ runs # <<>>) =>
          /\ syncState = [lastSyncTime |-> 50000, eventMapping |-> <<<<KeyP, 1>>>>,
                          pendingDeletions |-> <<>>]
          /\ \A id \in 1..Len(remote) : remote[id] = Stored("T1", 1, {KeyP})

C19_Witness ==
    /\ credentials.access_token = 0
    /\ \E c1, c2 \in Calls : /\ calls[c1].ev.type = "single"
                              /\ calls[c2].ev.type = "rrule"
                              /\ calls[c1].pc = "failed" /\ calls[c2].pc = "failed"
    /\ \E d \in Dels : dels[d].pc = "failed" /\ dels[d].key = KeyP
    /\ \E r \in Runs : runs[r].pc = "failed" /\ runs[r].input # <<>>

----------------------------------------------------------------------------
(* Claims about the events of a run, under SpecMixed *)

\* C20: when a run has returned and no request of it has failed, every
\* single event of its input that has a key has a mapping entry under that
\* key, and the entry names a live remote record.
C20_EverySingleMapped ==
    \A r \in Runs :
        (runs[r].pc = "done" /\ runs[r].errs = 0) =>
            \A i \in 1..Len(runs[r].input) :
                LET it == runs[r].input[i]
                IN  (it.event.type = "single" /\ keyOf(it) # NoKey) =>
                        Lookup(runs[r].mapEnd, keyOf(it)) \in runs[r].liveEnd

\* The places in the scheduled events of run r of the events under key k
Representatives(r, k) ==
    {j \in 1..Len(runs[r].syncTodo) : keyOf(runs[r].syncTodo[j]) = k}

\* The places in the scheduled events of run r of the events with no key
\* and title and date td
KeylessRepresentatives(r, td) ==
    {j \in 1..Len(runs[r].syncTodo) :
        /\ keyOf(runs[r].syncTodo[j]) = NoKey
        /\ getTitleDateKey(runs[r].syncTodo[j].event) = td}

\* C24: once a run has collapsed its input, exactly one event is scheduled
\* for each key of the input, and exactly one event with no key for each
\* title and date of the input's events with no key.
C24_OneRepresentativePerKey ==
    \A r \in Runs :
        runs[r].syncTodo # <<>> =>
            \A i \in 1..Len(runs[r].input) :
                LET it == runs[r].input[i]
                IN  IF keyOf(it) # NoKey
                    THEN Cardinality(Representatives(r, keyOf(it))) = 1
                    ELSE Cardinality(KeylessRepresentatives(
                             r, getTitleDateKey(it.event))) = 1

----------------------------------------------------------------------------
(* Claims about edits of synced events, under SpecModify *)

\* The calls modifyEvent made for an event whose note was mapped
ModifiedMapped ==
    {c \in Calls : /\ calls[c].loc # NoKey
                    /\ Lookup(calls[c].st0.eventMapping, calls[c].loc) # 0}

\* C21: the syncEvent call that modifyEvent makes for an event whose note has
\* a mapped remote record inserts no remote record and, when it returns, has
\* updated the mapped record.
C21_ModifyUpdatesMapped ==
    \A c \in ModifiedMapped :
        /\ calls[c].ins = 0
        /\ calls[c].pc = "done" =>
              /\ calls[c].upd > 0
              /\ calls[c].updTarget = Lookup(calls[c].st0.eventMapping, calls[c].loc)

----------------------------------------------------------------------------
(* Claims about the conversion, under SpecConvert *)

Converted == remote # <<>>

\* The calendar day after an ISO date
NextDay(iso) ==
    IF iso[3] < daysInMonth(iso[1], iso[2]) THEN <<iso[1], iso[2], iso[3] + 1>>
    ELSE IF iso[2] < 12 THEN <<iso[1], iso[2] + 1, 1>>
    ELSE <<iso[1] + 1, 1, 1>>

\* The minutes from the start of FirstYear to an ISO date and time
MinutesAt(t) == fromISO(<<t[1], t[2], t[3]>>) * MinutesPerDay + t[4] * 60 + t[5]

\* C22: the payload of an all-day single event starts on the event's date and
\* ends on its endDate when it has one, else on the next calendar day; and a
\* payload has no id.
C22_AllDayPayload ==
    Converted =>
        LET ev == local[1].event
            g == remote[1].body
        IN  /\ "id" \notin DOMAIN g
            /\ ev.allDay =>
                  /\ g.start = [date |-> ev.date]
                  /\ g.end = [date |-> IF ev.endDate # NoDate THEN ev.endDate
                                        ELSE NextDay(ev.date)]

C22_Witness ==
    /\ Converted
    /\ local[1].event.allDay
    /\ local[1].event.date = <<LastYear, 12, 31>>
    /\ local[1].event.endDate = NoDate
    /\ remote[1].body.end = [date |-> <<LastYear + 1, 1, 1>>]

----------------------------------------------------------------------------
(* Claims about termination, under SpecLive *)

\* C26 as stated, in that every run returns its counters: no run has ended
\* by throwing, for a run that has thrown never returns counters.
C26_Original == \A r \in Runs : runs[r].pc # "failed"

\* C26: whatever has been started, there comes a state where every run has
\* returned its counters or thrown, and every syncEvent and deleteEvent call
\* has returned or failed; no call stays waiting for the sync of its key that
\* is in flight.
C26_EverythingSettles == []<>Idle

C26_Witness ==
    /\ Idle
    /\ \E r \in Runs : runs[r].pc = "failed" /\ runs[r].err = RefreshFailed
    /\ \E r \in Runs : \E c \in CallsOf(r) : \E w \in Calls :
          calls[w].run = 0 /\ calls[w].waitOn = c /\ Settled(calls[w])

----------------------------------------------------------------------------
(* Claims about the requests of a syncEvent call, under SpecSync *)

\* The calls that have requested an update
Updating == {c \in Calls : calls[c].upd > 0}

\* C27 as stated: every update a syncEvent call requested was requested when
\* the mapping had an entry for the key, against the id of that entry.
C27_Original ==
    \A c \in Updating :
        calls[c].mapAtUpd # 0 /\ calls[c].updTarget = calls[c].mapAtUpd

\* C27: every update a syncEvent call requested was requested against the id
\* the mapping held for the key then or, the mapping holding none, against
\* the record its first probe had just found.
C27_UpdateTargetsMappedOrFound ==
    \A c \in Updating :
        \/ calls[c].mapAtUpd # 0 /\ calls[c].updTarget = calls[c].mapAtUpd
        \/ /\ calls[c].mapAtUpd = 0
           /\ calls[c].matched /\ calls[c].lst >= 1
           /\ calls[c].updTarget \in 1..Len(remote)

C27_Witness ==
    \E a, b \in Updating :
        /\ calls[a].mapAtUpd = 0 /\ calls[a].pc = "done"
        /\ calls[b].mapAtUpd # 0 /\ calls[b].pc = "done"
        /\ calls[b].updTarget = calls[a].updTarget

\* The calls that have recorded, for a key the mapping had no entry for, the
\* record one of their probes found
Adopting == {c \in Calls : calls[c].adopted # 0}

----------------------------------------------------------------------------
(* Claims about the insert of a syncEvent call, under SpecRace *)

\* The calls for a key that have returned after their insert created a record
Created ==
    {c \in Calls : calls[c].key # NoKey /\ calls[c].created # 0
                    /\ calls[c].pc = "done"}

\* A call whose insert returned to a mapping with an entry for the key has
\* requested the delete of the record it created, has returned the id of the
\* entry and has left the entry as it was.
DuplicateDropped(c) ==
    /\ calls[c].del = 1 /\ calls[c].target = calls[c].created
    /\ calls[c].res = calls[c].mapAtRet
    /\ calls[c].res # calls[c].created
    /\ Lookup(calls[c].st1.eventMapping, calls[c].key) = calls[c].mapAtRet

CreatedRecorded(c) ==
    /\ calls[c].res = calls[c].created
    /\ Lookup(calls[c].st1.eventMapping, calls[c].key) = calls[c].created

\* C29 as stated: a call whose insert returned to a mapping with an entry for
\* the key has dropped its record for the entry; one whose insert returned
\* to a mapping without an entry has recorded the created id and returned it.
C29_Original ==
    \A c \in Created :
        IF calls[c].mapAtRet # 0 THEN DuplicateDropped(c)
        ELSE CreatedRecorded(c) /\ calls[c].del = 0

\* C29: the same, but a call whose insert returned to a mapping without an
\* entry, and whose probe after the insert found another record with the
\* title, has requested the delete of the record it created and, the delete
\* done, has recorded and returned the id of the other record.
C29_AfterInsert ==
    \A c \in Created :
        IF calls[c].mapAtRet # 0 THEN DuplicateDropped(c)
        ELSE IF calls[c].other = 0 THEN CreatedRecorded(c) /\ calls[c].del = 0
        ELSE /\ calls[c].del = 1 /\ calls[c].target = calls[c].created
             /\ \/ calls[c].adoptedBy = 3 /\ calls[c].res = calls[c].other
                   /\ Lookup(calls[c].st1.eventMapping, calls[c].key)
                          = calls[c].other
                \/ calls[c].adoptedBy = 0 /\ CreatedRecorded(c)

C29_Witness ==
    \E c \in Created :
        /\ calls[c].mapAtIns = 0
        /\ calls[c].mapAtRet # 0
        /\ ~remote[calls[c].created].live

----------------------------------------------------------------------------
(* Claims about events with no key, under SpecModify *)

\* The settled syncEvent calls for a single event with neither a file path
\* nor an id, made on an engine with a token that needed no refresh or got it
Keyless ==
    {c \in Calls : /\ Settled(calls[c])
                    /\ calls[c].ev.type = "single"
                    /\ calls[c].filePath = NoKey /\ calls[c].ev.id = NoKey
                    /\ calls[c].err \notin {NotAuthenticated, RefreshFailed}}

\* C30: a syncEvent call for a single event with no key requests one insert
\* and no list, update or delete; when the insert succeeds it returns the id
\* of a record, one that no call had returned and that the mapping did not
\* hold; and it leaves the mapping, the pending deletions and the calls in
\* flight as they were.
C30_KeylessInsertsOnce ==
    \A c \in Keyless :
        /\ calls[c].ins = 1
        /\ calls[c].lst = 0 /\ calls[c].upd = 0 /\ calls[c].del = 0
        /\ calls[c].pc = "done" =>
              /\ calls[c].res \in 1..Len(remote)
              /\ \A d \in calls[c].before : calls[d].res # calls[c].res
              /\ \A i \in 1..Len(calls[c].st0.eventMapping) :
                    calls[c].st0.eventMapping[i][2] # calls[c].res
        /\ calls[c].st1.eventMapping = calls[c].st0.eventMapping
        /\ calls[c].st1.pendingDeletions = calls[c].st0.pendingDeletions
        /\ ~calls[c].perf /\ calls[c].waitOn = 0
        /\ Idle => syncingEvents = EmptyMap

C30_Witness ==
    \E c \in Keyless :
        /\ calls[c].pc = "done"
        /\ calls[c].loc # NoKey
        /\ calls[c].st0.eventMapping # <<>>
        /\ remote[calls[c].res].live

\* ---------------------------------------------------------------------
\* Orphan deletes that fail, under SpecRun

FailedOrphans(rn) == {e \in Answers(rn) : e.code \notin AlreadyGone \cup {200}}

DeleteRequestedIn(r, k) ==
    \/ RequestsFor(runs[r], k) # {}
    \/ \E d \in Dels : RetriedIn(d, r, k)

\* C31: when the remote delete of an orphaned mapping entry fails with an
\* error other than already-gone, the run that issued it returns with that
\* entry still mapped to the same record, counts as deleted only the orphans
\* whose delete succeeded or answered 410, has requested a delete for every
\* orphan it found, and the next run that still finds the entry mapped and
\* the key absent from its input requests the delete for that key again.
C31_FailedOrphanKept ==
    \A r \in Runs :
        runs[r].pc = "done" =>
            /\ Len(runs[r].log) = Len(runs[r].orphTodo)
            /\ runs[r].results.deleted =
                   Cardinality({i \in 1..Len(runs[r].orphTodo) :
                                    runs[r].orphTodo[i].code \in {200, 410}})
            /\ \A e \in FailedOrphans(runs[r]) :
                  /\ Lookup(runs[r].mapEnd, e.obsidianKey) = e.googleId
                  /\ /\ r + 1 \in Runs
                     /\ runs[r + 1].pc = "done"
                     /\ Lookup(runs[r + 1].st0.eventMapping, e.obsidianKey) # 0
                     /\ e.obsidianKey \notin runs[r + 1].keys
                     => DeleteRequestedIn(r + 1, e.obsidianKey)

C31_Witness ==
    \E r \in Runs : \E e \in FailedOrphans(runs[r]) :
        /\ runs[r].pc = "done"
        /\ Len(runs[r].orphTodo) = 2
        /\ r + 1 \in Runs
        /\ runs[r + 1].pc = "done"
        /\ RequestsFor(runs[r + 1], e.obsidianKey) # {}

\* ---------------------------------------------------------------------
\* A run whose token refresh fails, under SpecRun

RefreshRejected(rn) == rn.rfr = 1 /\ rn.pc # "refresh"

\* C32: when the token refresh at the start of a run is answered with an
\* error, the run fails with the refresh error after that one refresh
\* request, no list, insert, update or delete request belongs to it, and the
\* mapping, the pending deletions and lastSyncTime are those of its start.
C32_RefreshFailureAborts ==
    \A r \in Runs :
        RefreshRejected(runs[r]) =>
            /\ runs[r].pc = "failed"
            /\ runs[r].err = RefreshFailed
            /\ runs[r].log = <<>>
            /\ \A c \in Calls : calls[c].run # r
            /\ \A d \in Dels : dels[d].run # r
            /\ runs[r].st1 = runs[r].st0
            /\ runs[r].pendTodo = <<>> /\ runs[r].syncTodo = <<>>

C32_Witness ==
    \E r \in Runs :
        /\ RefreshRejected(runs[r])
        /\ runs[r].err = RefreshFailed
        /\ runs[r].st0.pendingDeletions # <<>>
        /\ runs[r].input = <<>>

\* ---------------------------------------------------------------------
\* syncEvent calls whose insert or update fails, under SpecSync

\* Call c performed the sync itself and failed on its update, or on its
\* insert before any record was created.
RequestFailed(c) ==
    /\ calls[c].pc = "failed"
    /\ calls[c].perf
    /\ calls[c].err \in world.codes \cup {404, 410}
    /\ calls[c].upd > 0 \/ (calls[c].ins > 0 /\ calls[c].created = 0)

GuardReleased(c) ==
    /\ calls[c].key \in DOMAIN syncingEvents => syncingEvents[calls[c].key] # c
    /\ \A k \in DOMAIN syncingEvents : ~Settled(calls[syncingEvents[k]])

FreshAfter(c) ==
    \A c2 \in Calls :
        c \in calls[c2].before /\ calls[c2].key = calls[c].key =>
            /\ calls[c2].waitOn \notin calls[c2].before
            /\ calls[c2].waitOn = 0 /\ calls[c2].pc \in RemotePcs \ {"refresh"}
                  => calls[c2].perf

C33_Original ==
    \A c \in Calls :
        RequestFailed(c) =>
            /\ Lookup(calls[c].st1.eventMapping, calls[c].key) =
               Lookup(calls[c].st0.eventMapping, calls[c].key)
            /\ GuardReleased(c)
            /\ FreshAfter(c)

\* The records a call for key k copied to k from the entry of its event.id
\* (syncEvent lines 303-315), whether it then performed the sync or awaited
\* the call that did.
MigratedTo(k) ==
    {Lookup(calls[m].st0.eventMapping, calls[m].ev.id) :
        m \in {x \in Calls : /\ calls[x].filePath = k
                              /\ calls[x].ev.id \notin {NoKey, k}
                              /\ Lookup(calls[x].st0.eventMapping, calls[x].ev.id) # 0
                              /\ Lookup(calls[x].st0.eventMapping, k) = 0}}

\* The entry of the key of call c when c issued the request that failed.
AtRequest(c) == IF calls[c].upd > 0 THEN calls[c].mapAtUpd ELSE calls[c].mapAtIns

\* C33: when a syncEvent call fails because its insert or update failed, the
\* failed request has written nothing to the mapping: the entry of its key is
\* the one it was when the call issued that request, or the entry of event.id
\* that a call for the same key copied to the file path meanwhile;
\* syncingEvents holds no promise of a settled call, and a later call for the
\* same key never awaits the failed call: it performs the sync itself, or
\* awaits a call that was still running when it was made.
C33_FailureLeavesKeyRetryable ==
    \A c \in Calls :
        RequestFailed(c) =>
            /\ Lookup(calls[c].st1.eventMapping, calls[c].key) \in
                  {AtRequest(c)} \cup MigratedTo(calls[c].key)
            /\ GuardReleased(c)
            /\ FreshAfter(c)

C33_Witness ==
    \E c, c2 \in Calls :
        /\ RequestFailed(c)
        /\ MigratingCall(c)
        /\ c \in calls[c2].before
        /\ calls[c2].key = calls[c].key
        /\ calls[c2].perf
        /\ calls[c2].pc = "done"

----------------------------------------------------------------------------
(* Scenario: the note p holds the event T1, synced before as record 1; the  *)
(* user removes the record on the remote calendar at some moment; the host  *)
(* runs reconciliations, calls syncEvent for the event, and calls           *)
(* deleteEvent for p, one kind of call at a time.  No request fails for a   *)
(* reason other than the record being gone.                                *)

GoneWorld ==
    [items |-> {Item(AllDay("T1", 1, NoKey), KeyP)}, delKeys |-> {KeyP},
     codes |-> {500}, victims |-> {}, syncEnabled |-> TRUE]

InitGone ==
    /\ world = GoneWorld
    /\ local = <<Item(AllDay("T1", 1, NoKey), KeyP)>>
    /\ remote = <<Stored("T1", 1, {KeyP})>>
    /\ syncState = [lastSyncTime |-> 0, eventMapping |-> <<<<KeyP, 1>>>>,
                    pendingDeletions |-> <<>>]
    /\ syncingEvents = EmptyMap
    /\ credentials \in {[access_token |-> 1, refresh_token |-> TRUE,
                         expiry_date |-> e] : e \in {0, 30000}}
    /\ calls = <<>>
    /\ dels = <<>>
    /\ runs = <<>>
    /\ sched = NewScheduler
    /\ now = 0
    /\ faultsLeft = 0
    /\ settings = Persisted(syncState, credentials)

\* Somebody removes a record on the remote calendar, outside the plugin.
RemovedRemotely ==
    /\ Idle
    /\ \E id \in 1..Len(remote) :
          /\ remote[id].live
          /\ remote' = [remote EXCEPT ![id].live = FALSE]
    /\ UNCHANGED <<world, syncState, syncingEvents, credentials, calls, dels,
                   runs, local, sched, now, settings, faultsLeft>>

\* The host makes one kind of call at a time: syncEvent calls while no run
\* and no deleteEvent call is going on, a deleteEvent call or a run while no
\* call of another kind is going on.
NoSyncEvent == \A c \in 1..Len(calls) : Settled(calls[c])

NoDeleteEvent == \A d \in 1..Len(dels) : dels[d].pc \in {"done", "failed"}

SyncEventAlone == Idle /\ NoDeleteEvent /\ HostSyncEvent

DeleteEventAlone == NoSyncEvent /\ HostDeleteEvent

SyncAllAlone == NoSyncEvent /\ NoDeleteEvent /\ HostSyncAll

NextGone ==
    \/ RemovedRemotely
    \/ SyncAllAlone
    \/ GetEvents
    \/ RunRefreshed
    \/ CallResponse
    \/ SyncEventAlone
    \/ DeleteEventAlone
    \/ DelResponse

SpecGone == InitGone /\ [][NextGone]_vars

\* Call c found its key mapped, updated the mapped record and was answered
\* 404.
UpdateNotFound(c) ==
    /\ calls[c].pc = "failed"
    /\ calls[c].err = 404
    /\ calls[c].upd = 1
    /\ calls[c].lst = 0

\* C34: a syncEvent call whose update of the mapped record is answered 404
\* fails, requests no insert and leaves the entry of its key as it was; the
\* next run that still finds that entry and has the event in its input
\* requests the update of the same record again and fails the same way.
C34_NotFoundUpdateRepeats ==
    \A c \in Calls :
        UpdateNotFound(c) =>
            /\ calls[c].ins = 0
            /\ calls[c].mapAtUpd = calls[c].updTarget
            /\ Lookup(calls[c].st1.eventMapping, calls[c].key) = calls[c].updTarget
            /\ \A r \in Runs :
                  /\ calls[c].run # 0
                  /\ r = calls[c].run + 1
                  /\ runs[r].pc = "done"
                  /\ Lookup(runs[r].mapS, calls[c].key) = calls[c].updTarget
                  /\ calls[c].key \in runs[r].keys
                  => /\ runs[r].results.failed = 1
                     /\ runs[r].results.synced = 0
                     /\ \E c2 \in Calls :
                           /\ calls[c2].run = r
                           /\ calls[c2].key = calls[c].key
                           /\ UpdateNotFound(c2)
                           /\ calls[c2].updTarget = calls[c].updTarget

C34_Witness ==
    \E c, c2 \in Calls :
        /\ UpdateNotFound(c) /\ UpdateNotFound(c2)
        /\ calls[c].run = 1 /\ calls[c2].run = 2
        /\ runs[2].pc = "done"
        /\ Lookup(syncState.eventMapping, KeyP) = 1

\* ---------------------------------------------------------------------
\* Keys of different events, under SpecRace

\* The keys of the two events of RaceWorld: the event of note p is known
\* under its file path and under its explicit id x, the event of note q
\* under its file path.
SameEvent(k1, k2) == k1 = k2 \/ {k1, k2} = {KeyP, KeyX}

\* C35: two keys that belong to different local events are never mapped to
\* the same remote record.
C35_DistinctEventsDistinctRecords ==
    \A i, j \in 1..Len(syncState.eventMapping) :
        ~SameEvent(syncState.eventMapping[i][1], syncState.eventMapping[j][1]) =>
            syncState.eventMapping[i][2] # syncState.eventMapping[j][2]

\* ---------------------------------------------------------------------
\* Orphan deletes and the run's input, under SpecMixed

\* The keys under which the events of the input of run r are known
InputKeys(r) == obsidianEventKeys(runs[r].input)

\* C36: a run requests no orphan delete for the entry of a key of an event
\* of its own input.
C36_NoOrphanDeleteOfInput ==
    \A r \in Runs : \A k \in InputKeys(r) : RequestsFor(runs[r], k) = {}

----------------------------------------------------------------------------
(* Scenario: the note d is gone and was synced before as record 1; its      *)
(* deletion is pending or not.  The host runs reconciliations and calls     *)
(* deleteEvent, at any moment, for d or for q, a key that was never synced. *)

PendingWorld ==
    [items |-> {}, delKeys |-> {KeyD, KeyQ}, codes |-> {500}, victims |-> {},
     syncEnabled |-> TRUE]

InitPending ==
    /\ world = PendingWorld
    /\ local = <<>>
    /\ remote = <<Stored("T2", 2, {KeyD})>>
    /\ \E pending \in {<<>>, <<KeyD>>} :
          syncState = [lastSyncTime |-> 0, eventMapping |-> <<<<KeyD, 1>>>>,
                       pendingDeletions |-> pending]
    /\ syncingEvents = EmptyMap
    /\ credentials = [access_token |-> 1, refresh_token |-> TRUE, expiry_date |-> 0]
    /\ calls = <<>>
    /\ dels = <<>>
    /\ runs = <<>>
    /\ sched = NewScheduler
    /\ now = 0
    /\ faultsLeft = MaxFaults
    /\ settings = Persisted(syncState, credentials)

\* The host calls deleteEvent(key), whatever else is going on.
HostDeleteEventAnytime ==
    /\ Cardinality(HostDels) < MaxDels
    /\ \E k \in world.delKeys : Commit(Drain(deleteEvent(Cur, k, 0, 0)))

NextPending ==
    \/ HostSyncAll
    \/ GetEvents
    \/ ItemTimer
    \/ DelResponse
    \/ OrphanResponse
    \/ HostDeleteEventAnytime

SpecPending == InitPending /\ [][NextPending]_vars

\* ---------------------------------------------------------------------
\* Keys that leave the pending deletions, under SpecPending

\* A remote delete requested for key k was answered with success or with
\* already-gone.
DeleteConfirmed(k) ==
    \/ \E d \in Dels :
          /\ dels[d].key = k
          /\ dels[d].req > 0
          /\ dels[d].code \in AlreadyGone \cup {200}
    \/ \E r \in Runs : \E e \in Answers(runs[r]) :
          e.obsidianKey = k /\ e.code \in AlreadyGone \cup {200}

LeavesPending(k) ==
    /\ includes(syncState.pendingDeletions, k)
    /\ ~includes(syncState.pendingDeletions', k)

\* C37: in the step in which a key leaves the pending deletions, a remote
\* delete requested for that key has been answered with success or with
\* already-gone.
C37_PendingLeavesAfterDelete ==
    [][\A k \in world.delKeys : LeavesPending(k) => DeleteConfirmed(k)']_vars

----------------------------------------------------------------------------
(* Scenario: the notes p and ad were synced before as records 1 and 2,      *)
(* which are still on the remote calendar or were removed there.  The host  *)
(* calls deleteEvent for p, for P, for d (the end of ad) or for xp (which   *)
(* ends with p).                                                            *)

KeyAD == <<"a", "d">>

DeleteWorld ==
    [items |-> {}, delKeys |-> {KeyP, <<"P">>, KeyD, <<"x", "p">>},
     codes |-> {500}, victims |-> {}, syncEnabled |-> TRUE]

InitDelete ==
    /\ world = DeleteWorld
    /\ local = <<>>
    /\ \E there1, there2 \in BOOLEAN :
          remote = <<[Stored("T1", 1, {KeyP}) EXCEPT !.live = there1],
                     [Stored("T2", 2, {KeyAD}) EXCEPT !.live = there2]>>
    /\ \E mapped \in {<<<<KeyP, 1>>, <<KeyAD, 2>>>>, <<<<KeyAD, 2>>>>, <<<<KeyP, 1>>>>} :
          syncState = [lastSyncTime |-> 0, eventMapping |-> mapped,
                       pendingDeletions |-> <<>>]
    /\ syncingEvents = EmptyMap
    /\ credentials \in {[access_token |-> 1, refresh_token |-> TRUE,
                         expiry_date |-> e] : e \in {0, 30000}}
    /\ calls = <<>>
    /\ dels = <<>>
    /\ runs = <<>>
    /\ sched = NewScheduler
    /\ now = 0
    /\ faultsLeft = MaxFaults
    /\ settings = Persisted(syncState, credentials)

NextDelete == HostDeleteEvent \/ DelResponse

SpecDelete == InitDelete /\ [][NextDelete]_vars

\* C38: a deleteEvent call requests the delete of no record other than the
\* one mapped under exactly its key, and when it has settled the entries of
\* all other keys are as they were when it was made.
C38_DeletesOnlyExactKey ==
    \A d \in Dels :
        /\ dels[d].req > 0 =>
              dels[d].target = Lookup(dels[d].st0.eventMapping, dels[d].key)
        /\ dels[d].pc \in {"done", "failed"} =>
              \A i \in 1..Len(dels[d].st0.eventMapping) :
                  LET k == dels[d].st0.eventMapping[i][1]
                  IN  k # dels[d].key =>
                         Lookup(dels[d].st1.eventMapping, k) =
                         Lookup(dels[d].st0.eventMapping, k)

\* ---------------------------------------------------------------------
\* The counters a run returns, under SpecRun

\* The orphans of run rn whose delete was answered with one of codes
Answered(rn, codes) ==
    {i \in 1..Len(rn.orphTodo) : rn.orphTodo[i].code \in codes}

\* C39: a completed run returns synced + skipped + failed equal to the
\* number of events it scheduled after collapsing its input, and deleted
\* equal to the number of its orphans whose remote delete succeeded or was
\* answered already-gone (404 or 410).
C39_CountersAddUp ==
    \A r \in Runs :
        runs[r].pc = "done" =>
            /\ runs[r].results.synced + runs[r].results.skipped
                  + runs[r].results.failed = Len(runs[r].syncTodo)
            /\ runs[r].results.deleted =
                  Cardinality(Answered(runs[r], AlreadyGone \cup {200}))

\* ---------------------------------------------------------------------
\* The scheduler after saveSettings, under SpecSched

IsRegistered(sc, calendar) ==
    \E i \in 1..Len(sc.googleCalendars) : sc.googleCalendars[i] = calendar

\* C40: a saveSettings with calendar 1 configured and sync-enabled leaves a
\* running scheduler with which calendar 1 is registered.
C40_RunningSchedulerHasCalendars ==
    [][SaveSettings /\ world.syncEnabled =>
          sched'.isRunning /\ IsRegistered(sched', 1)]_vars

====
